---- MODULE Spec2Model ----
(***************************************************************************)
(* mdclaw execution orchestration layer.                                   *)
(*                                                                         *)
(* The host application of mdclaw is generated from skill files and anchor *)
(* contracts; the repository ships the contracts (types-contract.ts,       *)
(* ipc-protocol.md, ARCHITECTURE.md, add-orchestrator/SKILL.md), the       *)
(* agent-runner and the integration test.  This module models              *)
(*   - the Execution Queue (group queue): per-group FIFO plus a global     *)
(*     concurrency limit (QueueSpec, QueueLiveSpec),                       *)
(*   - the Command Bus: the host-side scan of ipc/{group}/tasks with its   *)
(*     authorization model (BusSpec),                                      *)
(*   - the Cursor (lastProcessed) with its optimistic advance and rollback *)
(*     (CursorSpec).                                                       *)
(***************************************************************************)
EXTENDS Integers, Sequences, FiniteSets, Bags, TLC

\* ------------------------------------------------------------------------
\* Groups
\* ------------------------------------------------------------------------

\* The administrative group's folder (MAIN_GROUP_FOLDER).
MAIN_GROUP_FOLDER == "main"

\* Registered group folders, in the order the queue iterates over them.
GroupOrder == <<"main", "alpha", "beta">>

Groups == {GroupOrder[i] : i \in 1..Len(GroupOrder)}

NumGroups == Len(GroupOrder)

GroupIndex(g) == CHOOSE i \in 1..NumGroups : GroupOrder[i] = g

\* ------------------------------------------------------------------------
\* Execution Queue
\* ------------------------------------------------------------------------

\* Global limit K of simultaneously running containers (5 in a deployment).
MaxConcurrent == 2

\* Longest per-group FIFO explored.
MaxPending == 2

\* Submission tickets are numbered modulo TicketMod; a FIFO holds at most
\* MaxPending items, with consecutive tickets, so no two of them carry the
\* same ticket.
TicketMod == MaxPending

Tickets == 0..(TicketMod - 1)

\* How a container run ends: clean exit, crash (nonzero exit), deadline kill.
Outcomes == {"ok", "crash", "timeout"}

VARIABLES
  pending,       \* GroupState.pending: per group, FIFO of tickets; the head is
                 \* the running item while processing[g]
  processing,    \* GroupState.processing: per group, an item is running
  activeCount,   \* global running counter
  handles,       \* live ExecutionHandles: a bag of records
                 \* [groupFolder, ticket]
  rrNext,        \* index in GroupOrder where the next admission scan starts
  shuttingDown,  \* the queue has been told to stop admitting
  nextTicket,    \* per group, ticket of the next submission
  started,       \* per group, ticket of the item started last
  finished,      \* per group, ticket of the item finished last
  lastOutcome    \* how the run that exited last ended ("none" before any)

queueVars == <<pending, processing, activeCount, handles, rrNext, shuttingDown,
               nextTicket, started, finished, lastOutcome>>

VARIABLES
  tasksFiles,        \* files in the tasks/ directories: records
                     \* [name, dir, cmd], name unique
  errorsDir,         \* ipc/errors: records [name, error, source_group]
  scheduledTasks,    \* scheduled_tasks table: id -> [group_folder, status]
  registeredGroups,  \* the router's registered groups: folder -> name
  groupRows,         \* registered_groups table: rows [folder, name, added_at]
  reloads,           \* number of router.loadState() calls (refresh_groups)
  nextFile,          \* name of the next command file
  lastActed          \* names of the files the last scan acted on, in order

busVars == <<tasksFiles, errorsDir, scheduledTasks, registeredGroups, reloads,
             nextFile, lastActed, groupRows>>

VARIABLES
  messages,       \* messages table: records [chat_jid, timestamp, kind]
  lastProcessed,  \* AppState.lastProcessed: the Cursor, per group
  exec,           \* per group, its current (or last) execution: records
                  \* [running, previousCursor, batch, delivered, outcome]
  followUps       \* per group, the message files in ipc/{group}/input, in
                  \* filename order

cursorVars == <<messages, lastProcessed, exec, followUps>>

VARIABLES
  trigger         \* the last trigger evaluation: the group as registered, the
                  \* batch and the decision

triggerVars == <<trigger>>

VARIABLES
  orchState,      \* the orchestrator's state, per group
  handle,         \* per group: "none", or "live" while its container runs
  closeMarker,    \* per group: _close is in ipc/{group}/input
  grace,          \* what is left of the grace period of the shutdown
  signals,        \* termination signals received
  liveAtSignal,   \* the groups whose handle was live at the first signal
  killed          \* the groups whose container was force-killed

orchVars == <<orchState, handle, closeMarker, grace, signals, liveAtSignal,
              killed>>

VARIABLES
  raw,            \* what the container has written to stdout so far
  expected,       \* the trimmed texts of the complete blocks written
  mode,           \* "noise" outside a block, "text" inside one
  text,           \* the text written so far of the block being written
  consumed,       \* how much of raw the host has read
  buffer,         \* the streaming parser's unparsed remainder
  blocks          \* the blocks the streaming parser has emitted (onOutput)

parserVars == <<raw, expected, mode, text, consumed, buffer, blocks>>

VARIABLES
  inputFiles,         \* the follow-up files in ipc/{group}/input
  closeFile,          \* _close is in ipc/{group}/input
  written,            \* how many follow-up files the host has written
  closeWritten,       \* the host has written _close
  pc,                 \* main: "query", "waiting", "closed" or "failed"
  ipcPolling,         \* the pollIpc timer of the current query is armed
  closedDuringQuery,  \* pollIpc saw _close during the current query
  streamDone,         \* stream.end() was called on the current stream
  pushed,             \* the follow-ups given to stream.push, in order
  fed,                \* the follow-ups that reached a running query()
  queries             \* how many query() calls main has started

runnerVars == <<inputFiles, closeFile, written, closeWritten, pc, ipcPolling,
                closedDuringQuery, streamDone, pushed, fed, queries>>

VARIABLES
  msQueue,        \* MessageStream.queue
  msWaiting,      \* MessageStream.waiting holds a resolver
  msDone,         \* MessageStream.done
  msIter,         \* the iterator: "idle", "parked", "woken" or "completed"
  msPushed,       \* every message given to push, in order
  msYielded,      \* every message the iterator has yielded, in order
  msAtEnd         \* how many messages had been pushed when end() was called

streamVars == <<msQueue, msWaiting, msDone, msIter, msPushed, msYielded,
                msAtEnd>>

VARIABLES
  wFiles,         \* per command being written: its file in tasks/, or none
  wRead           \* what the host's scans have read: file and bytes found

writerVars == <<wFiles, wRead>>

VARIABLES
  rtCommand,      \* the IpcCommand handed to writeIpcCommand
  rtFile,         \* the content of the command file, empty before the write
  rtParsed,       \* what the reader got from the file
  rtStage         \* "idle", "new", "written" or "read"

roundTripVars == <<rtCommand, rtFile, rtParsed, rtStage>>

VARIABLES
  cState,         \* the subprocess: "running", "killed" (signalled) or "exited"
  cOutput,        \* total output captured so far, in units
  cElapsed,       \* wall-clock time since the launch, in ticks
  cCause,         \* why this component terminated it: "none", "deadline", "size"
  cResult,        \* ContainerResult of the exit: exitCode and timedOut
  cClass          \* the classification: "none" until the exit

exitVars == <<cState, cOutput, cElapsed, cCause, cResult, cClass>>

\* The orchestrator's session bookkeeping (AppState.sessions and the
\* ContainerInput documents built for the executions it starts).
VARIABLES
  sessions,      \* AppState.sessions: group folder -> stored session id, 0 = none
  uuidCount,     \* how many times crypto.randomUUID() has been called
  containerInputs,       \* the ContainerInput of every execution containerInputs, in order
  liveInput,     \* group folder -> index in containerInputs of its live execution, 0 = none
  turnLog        \* the continuation turns delivered: execution index, session id

sessionVars == <<sessions, uuidCount, containerInputs, liveInput, turnLog>>

\* The agent-runner's environment handling (main, steps 1 and 2).
VARIABLES
  envStage,      \* "idle", "input" (stdin document ready), "done", "failed"
  ambientEnv,    \* process.env when the runner starts
  processEnv,    \* process.env now
  stdinSecrets,  \* input.secrets: given or not, and its entries
  secretsFile,   \* /secrets.json: exists or not, and its entries
  sdkEnv,        \* options.env of query(): passed or not, and its entries
  fileRead,      \* main has read /secrets.json
  mainRan        \* which definition of main ran: "none", "first", "second"

envVars == <<envStage, ambientEnv, processEnv, stdinSecrets, secretsFile,
             sdkEnv, fileRead, mainRan>>

\* The orchestrator's startup (INITIALIZING, RECOVERING, first POLLING).
VARIABLES
  recState,      \* "INITIALIZING", "RECOVERING" or "POLLING"
  recStore,      \* the messages table as the restarted process finds it
  recCursor,     \* lastProcessed as loaded from the store, per group
  recNext,       \* position in RecoveryOrder of the group checked next
  recSubmitted   \* per group, the batch submitted to the queue (<<>> = none)

recoveryVars == <<recState, recStore, recCursor, recNext, recSubmitted>>

\* The successive containers of one group and the input/ directory they
\* share (ipc/{group}/input on the host, /ipc/input in each container).
VARIABLES
  dirFiles,       \* follow-up files in input/: records [name, handle]
  dirClose,       \* 0, or the handle _close was written for
  routed,         \* how many follow-up files the host has written
  hNo,            \* how many containers the host has started for the group
  hPc,            \* main of the live container: "none", "query", "waiting",
                  \* "failed" (main has returned, a timer keeps the process)
  hScheduled,     \* input.isScheduledTask of the live (or last) container
  hPolling,       \* ipcPolling: the pollIpc timer is armed
  hClosed,        \* closedDuringQuery
  hQueries,       \* query() calls of the live (or last) container
  hBlocks,        \* response blocks it has emitted
  hErrors,        \* error blocks it has emitted
  hLog,           \* its conversationLog is not empty
  hArchived,      \* archiveTranscript has run
  consumedLog,    \* what was taken from input/: [item, writtenFor, consumedBy]
  fedFiles,       \* names of the follow-ups that became input of a query()
  scheduledRuns   \* the handles started with isScheduledTask

lifeVars == <<dirFiles, dirClose, routed, hNo, hPc, hScheduled, hPolling,
              hClosed, hQueries, hBlocks, hErrors, hLog, hArchived,
              consumedLog, fedFiles, scheduledRuns>>

\* drainIpcInput over a directory with every kind of entry.
VARIABLES
  drainDir,      \* entries of input/: records [name, kind]
  usedNames,     \* the file names the host has used
  closePresent,  \* _close is in input/
  drainLog       \* the result of every drain so far, in order

drainVars == <<drainDir, usedNames, closePresent, drainLog>>

\* MCP tools of the agent-runner: the configuration of the running
\* container's server, the tools it registered, the command files lying in
\* the groups' tasks/ directories, tool calls made and the host's verdicts.
VARIABLES mcpConfig, mcpTools, mcpTasks, mcpCalls, mcpVerdicts

mcpVars == <<mcpConfig, mcpTools, mcpTasks, mcpCalls, mcpVerdicts>>

\* What the actions of one component leave alone.
notQueueVars ==
  <<busVars, cursorVars, triggerVars, orchVars, parserVars, runnerVars,
    streamVars, writerVars, roundTripVars, exitVars, sessionVars, envVars,
    recoveryVars, lifeVars, drainVars, mcpVars>>

notBusVars ==
  <<queueVars, cursorVars, triggerVars, orchVars, parserVars, runnerVars,
    streamVars, writerVars, roundTripVars, exitVars, sessionVars, envVars,
    recoveryVars, lifeVars, drainVars, mcpVars>>

notCursorVars ==
  <<queueVars, busVars, triggerVars, orchVars, parserVars, runnerVars,
    streamVars, writerVars, roundTripVars, exitVars, sessionVars, envVars,
    recoveryVars, lifeVars, drainVars, mcpVars>>

notTriggerVars ==
  <<queueVars, busVars, cursorVars, orchVars, parserVars, runnerVars,
    streamVars, writerVars, roundTripVars, exitVars, sessionVars, envVars,
    recoveryVars, lifeVars, drainVars, mcpVars>>

notOrchVars ==
  <<queueVars, busVars, cursorVars, triggerVars, parserVars, runnerVars,
    streamVars, writerVars, roundTripVars, exitVars, sessionVars, envVars,
    recoveryVars, lifeVars, drainVars, mcpVars>>

notParserVars ==
  <<queueVars, busVars, cursorVars, triggerVars, orchVars, runnerVars,
    streamVars, writerVars, roundTripVars, exitVars, sessionVars, envVars,
    recoveryVars, lifeVars, drainVars, mcpVars>>

notRunnerVars ==
  <<queueVars, busVars, cursorVars, triggerVars, orchVars, parserVars,
    streamVars, writerVars, roundTripVars, exitVars, sessionVars, envVars,
    recoveryVars, lifeVars, drainVars, mcpVars>>

notStreamVars ==
  <<queueVars, busVars, cursorVars, triggerVars, orchVars, parserVars,
    runnerVars, writerVars, roundTripVars, exitVars, sessionVars, envVars,
    recoveryVars, lifeVars, drainVars, mcpVars>>

notWriterVars ==
  <<queueVars, busVars, cursorVars, triggerVars, orchVars, parserVars,
    runnerVars, streamVars, roundTripVars, exitVars, sessionVars, envVars,
    recoveryVars, lifeVars, drainVars, mcpVars>>

notRoundTripVars ==
  <<queueVars, busVars, cursorVars, triggerVars, orchVars, parserVars,
    runnerVars, streamVars, writerVars, exitVars, sessionVars, envVars,
    recoveryVars, lifeVars, drainVars, mcpVars>>

notExitVars ==
  <<queueVars, busVars, cursorVars, triggerVars, orchVars, parserVars,
    runnerVars, streamVars, writerVars, roundTripVars, sessionVars,
    envVars, recoveryVars, lifeVars, drainVars, mcpVars>>

notSessionVars ==
  <<queueVars, busVars, cursorVars, triggerVars, orchVars, parserVars,
    runnerVars, streamVars, writerVars, roundTripVars, exitVars, envVars,
    recoveryVars, lifeVars, drainVars, mcpVars>>

notEnvVars ==
  <<queueVars, busVars, cursorVars, triggerVars, orchVars, parserVars,
    runnerVars, streamVars, writerVars, roundTripVars, exitVars,
    sessionVars, recoveryVars, lifeVars, drainVars, mcpVars>>

notRecoveryVars ==
  <<queueVars, busVars, cursorVars, triggerVars, orchVars, parserVars,
    runnerVars, streamVars, writerVars, roundTripVars, exitVars,
    sessionVars, envVars, lifeVars, drainVars, mcpVars>>

notLifeVars ==
  <<queueVars, busVars, cursorVars, triggerVars, orchVars, parserVars,
    runnerVars, streamVars, writerVars, roundTripVars, exitVars,
    sessionVars, envVars, recoveryVars, drainVars, mcpVars>>

notDrainVars ==
  <<queueVars, busVars, cursorVars, triggerVars, orchVars, parserVars,
    runnerVars, streamVars, writerVars, roundTripVars, exitVars,
    sessionVars, envVars, recoveryVars, lifeVars, mcpVars>>

notMcpVars ==
  <<queueVars, busVars, cursorVars, triggerVars, orchVars, parserVars,
    runnerVars, streamVars, writerVars, roundTripVars, exitVars,
    sessionVars, envVars, recoveryVars, lifeVars, drainVars>>

\* The queue's state as one value, so that a handler's steps compose.
QueueState == [pending |-> pending, processing |-> processing,
               activeCount |-> activeCount, handles |-> handles,
               rrNext |-> rrNext, started |-> started, finished |-> finished,
               lastOutcome |-> lastOutcome]

Commit(q) ==
  /\ pending' = q.pending
  /\ processing' = q.processing
  /\ activeCount' = q.activeCount
  /\ handles' = q.handles
  /\ rrNext' = q.rrNext
  /\ started' = q.started
  /\ finished' = q.finished
  /\ lastOutcome' = q.lastOutcome

QueueInit ==
  /\ pending = [g \in Groups |-> <<>>]
  /\ processing = [g \in Groups |-> FALSE]
  /\ activeCount = 0
  /\ handles = EmptyBag
  /\ rrNext = 1
  /\ shuttingDown = FALSE
  /\ nextTicket = [g \in Groups |-> 0]
  /\ started = [g \in Groups |-> TicketMod - 1]
  /\ finished = [g \in Groups |-> TicketMod - 1]
  /\ lastOutcome = "none"

\* A group whose FIFO head is waiting to run.
Eligible(q, g) == q.pending[g] # <<>> /\ ~q.processing[g]

CanAdmitIgnoringLimit(q, g) == Eligible(q, g)

CanAdmitIgnoringProcessing(q, g) ==
  /\ q.pending[g] # <<>>
  /\ q.activeCount < MaxConcurrent

\* Per-group serialization plus the global limit: admission succeeds when
\* the group's head is not already running and the global counter is below
\* the limit.
CanAdmit(q, g) ==
  /\ Eligible(q, g)
  /\ q.activeCount < MaxConcurrent

\* A queue that goes on admitting during the shutdown.
AdmissionOpenAlways == TRUE

\* The queue admits nothing once shutdown has begun.
AdmissionOpen == ~shuttingDown

NextItemNewest(q, g) == q.pending[g][Len(q.pending[g])]

\* The item of group g that runs next: the head of its FIFO.
NextItem(q, g) == Head(q.pending[g])

\* Increment the counter, mark the item running and start it (the
\* ExecutionHandle is created here).
StartItem(q, g) ==
  [q EXCEPT !.processing[g] = TRUE,
            !.activeCount = @ + 1,
            !.handles = @ (+) SetToBag({[groupFolder |-> g,
                                                    ticket |-> NextItem(q, g)]}),
            !.started[g] = NextItem(q, g)]

\* A submission that leaves the admission to the next completion.
TryAdmitNever(q, g) == q

TryAdmit(q, g) ==
  IF AdmissionOpen /\ CanAdmit(q, g) THEN StartItem(q, g) ELSE q

\* submit: append to the group's FIFO, attempt to admit.
Enqueue(q, g, t) == [q EXCEPT !.pending[g] = Append(@, t)]

ReleaseSlotOnSuccessOnly(q, g, outcome) ==
  IF outcome = "ok"
    THEN [q EXCEPT !.activeCount = @ - 1,
                   !.pending[g] = Tail(@),
                   !.processing[g] = FALSE,
                   !.finished[g] = Head(q.pending[g])]
    ELSE q

\* On completion, success or failure: decrement the counter and pop the
\* finished item.
ReleaseSlot(q, g, outcome) ==
  [q EXCEPT !.activeCount = @ - 1,
            !.pending[g] = Tail(@),
            !.processing[g] = FALSE,
            !.finished[g] = Head(q.pending[g])]

\* The i-th group in round-robin order when the scan starts at index `from`.
Rotation(from, i) == GroupOrder[((from + i - 2) % NumGroups) + 1]

NextEligibleLowestFirst(q) ==
  LET order == GroupOrder
      hits == {i \in 1..NumGroups : Eligible(q, order[i])}
  IN  IF hits = {} THEN "none"
      ELSE order[CHOOSE i \in hits : \A j \in hits : i <= j]

\* Round-robin over the groups with a pending, non-running head: the first
\* such group at or after rrNext.
NextEligible(q) ==
  LET hits == {i \in 1..NumGroups : Eligible(q, Rotation(q.rrNext, i))}
  IN  IF hits = {} THEN "none"
      ELSE Rotation(q.rrNext, CHOOSE i \in hits : \A j \in hits : i <= j)

\* After a completion: admit the item of the group the round-robin scan has
\* chosen, if any, and move the round-robin pointer past that group.
AdmitNext(q, g) ==
  IF g = "none" THEN q
  ELSE IF ~(AdmissionOpen /\ CanAdmit(q, g)) THEN q
  ELSE [StartItem(q, g) EXCEPT !.rrNext = (GroupIndex(g) % NumGroups) + 1]

\* The live handles of group g, and their number.
HandlesOf(b, g) ==
  [h \in {x \in DOMAIN b : x.groupFolder = g} |-> b[h]]

HandleCount(g) == BagCardinality(HandlesOf(handles, g))

HasHandle(g) == \E h \in DOMAIN handles : h.groupFolder = g

\* The handles of every group but g.
WithoutGroup(b, g) ==
  [h \in {x \in DOMAIN b : x.groupFolder # g} |-> b[h]]

\* submit(groupFolder, work)
Submit(g) ==
  /\ ~shuttingDown
  /\ Len(pending[g]) < MaxPending
  /\ \E queued \in {Enqueue(QueueState, g, nextTicket[g])} :
       \E admitted \in {TryAdmit(queued, g)} : Commit(admitted)
  /\ nextTicket' = [nextTicket EXCEPT ![g] = (@ + 1) % TicketMod]
  /\ UNCHANGED <<shuttingDown, notQueueVars>>

\* The process of group g's handle has exited with `outcome`: the handle is
\* destroyed, the slot released and the next eligible item admitted.
Settle(g, outcome) ==
  \E exited \in {[QueueState EXCEPT !.handles = WithoutGroup(@, g),
                                    !.lastOutcome = outcome]} :
    \E released \in {ReleaseSlot(exited, g, outcome)} :
      \E next \in {NextEligible(released)} :
        \E admitted \in {AdmitNext(released, next)} : Commit(admitted)

\* A running item completes successfully.
Complete(g) ==
  /\ HasHandle(g)
  /\ Settle(g, "ok")
  /\ UNCHANGED <<shuttingDown, nextTicket, notQueueVars>>

\* A running item fails (container crash).
Fail(g) ==
  /\ HasHandle(g)
  /\ Settle(g, "crash")
  /\ UNCHANGED <<shuttingDown, nextTicket, notQueueVars>>

\* A running item is killed at its deadline.
Timeout(g) ==
  /\ HasHandle(g)
  /\ Settle(g, "timeout")
  /\ UNCHANGED <<shuttingDown, nextTicket, notQueueVars>>

\* Termination signal: the queue stops admitting.
Shutdown ==
  /\ ~shuttingDown
  /\ shuttingDown' = TRUE
  /\ UNCHANGED <<pending, processing, activeCount, handles, rrNext,
                 nextTicket, started, finished, lastOutcome, notQueueVars>>

Finish(g) == Complete(g) \/ Fail(g) \/ Timeout(g)

QueueNext ==
  \/ \E g \in Groups : Submit(g)
  \/ \E g \in Groups : Complete(g)
  \/ \E g \in Groups : Fail(g)
  \/ \E g \in Groups : Timeout(g)
  \/ Shutdown

QueueLiveNext ==
  \/ \E g \in Groups : Submit(g)
  \/ \E g \in Groups : Complete(g)
  \/ \E g \in Groups : Fail(g)
  \/ \E g \in Groups : Timeout(g)

\* ------------------------------------------------------------------------
\* Command Bus (ipc/{group}/tasks, host side)
\* ------------------------------------------------------------------------

\* Command files written during one run of the model.
MaxFiles == 2

\* IpcCommand.type
CommandTypes == {"schedule_task", "pause_task", "resume_task", "cancel_task",
                 "refresh_groups", "register_group"}

\* Commands that only the main group may issue.
MainGroupOnly == {"refresh_groups", "register_group"}

\* Task operations, subject to the ownership check.
TaskOps == {"pause_task", "resume_task", "cancel_task"}

\* Scheduled tasks present at startup and the group_folder that owns each.
TaskOwner == [t1 |-> "alpha", t2 |-> "beta"]

TaskIds == DOMAIN TaskOwner

\* Folders a register_group payload may name: a new group and a registered one.
PayloadFolders == {"ops", "alpha"}

\* The content of a command file: a well-formed IpcCommand (with the one
\* payload field the host acts on) or a document that does not parse.
Commands ==
  [type : {"schedule_task", "refresh_groups"}, source_group : Groups,
   target : {"none"}]
    \cup [type : TaskOps, source_group : Groups, target : TaskIds]
    \cup [type : {"register_group"}, source_group : Groups,
          target : PayloadFolders]
    \cup [type : {"malformed"}, source_group : {"unknown"}, target : {"none"}]

BusInit ==
  /\ tasksFiles = {}
  /\ errorsDir = {}
  /\ scheduledTasks =
       [t \in TaskIds |-> [group_folder |-> TaskOwner[t], status |-> "active"]]
  /\ registeredGroups = [g \in Groups |-> g]
  /\ groupRows = {[folder |-> g, name |-> g, added_at |-> 0] : g \in Groups}
  /\ reloads = 0
  /\ nextFile = 1
  /\ lastActed = <<>>

\* The host's state as one value, so that the files of a scan compose.
BusState == [tasksFiles |-> tasksFiles, errorsDir |-> errorsDir,
             scheduledTasks |-> scheduledTasks,
             registeredGroups |-> registeredGroups, reloads |-> reloads,
             lastActed |-> lastActed, groupRows |-> groupRows]

CommitBus(b) ==
  /\ tasksFiles' = b.tasksFiles
  /\ errorsDir' = b.errorsDir
  /\ scheduledTasks' = b.scheduledTasks
  /\ registeredGroups' = b.registeredGroups
  /\ reloads' = b.reloads
  /\ lastActed' = b.lastActed
  /\ groupRows' = b.groupRows

SourceIdentityOkTrustingMain(f) ==
  f.cmd.source_group = f.dir \/ f.cmd.source_group = MAIN_GROUP_FOLDER

\* 1. Source identity: source_group must match the directory the file was
\* found in.
SourceIdentityOk(f) == f.cmd.source_group = f.dir

MainGroupOkForAll(cmd) == TRUE

\* 2. Main group check: refresh_groups and register_group need the main group
\* as source.
MainGroupOk(cmd) ==
  cmd.type \in MainGroupOnly => cmd.source_group = MAIN_GROUP_FOLDER

OwnershipOkForAll(b, cmd) == TRUE

\* 3. Ownership check: a non-main group modifies only tasks of its own
\* group_folder; the main group modifies any task.
OwnershipOk(b, cmd) ==
  (cmd.type \in TaskOps /\ cmd.source_group # MAIN_GROUP_FOLDER) =>
    b.scheduledTasks[cmd.target].group_folder = cmd.source_group

\* Why file f is rejected, or "ok".
Rejection(b, f) ==
  IF f.cmd.type \notin CommandTypes THEN "Malformed command"
  ELSE IF ~SourceIdentityOk(f) THEN "Unauthorized: source_group mismatch"
  ELSE IF ~MainGroupOk(f.cmd) THEN "Unauthorized: non-main group"
  ELSE IF ~OwnershipOk(b, f.cmd) THEN "Unauthorized: not the task owner"
  ELSE "ok"

\* The status of a task after a task operation.
NewStatus(type, status) ==
  CASE type = "pause_task" -> IF status = "active" THEN "paused" ELSE status
    [] type = "resume_task" -> IF status = "paused" THEN "active" ELSE status
    [] type = "cancel_task" -> "completed"

\* The id the host gives the task created from command file f.
NewTaskId(f) == ToString(f.name)

\* INSERT INTO registered_groups without the ON CONFLICT clause, on a table
\* without the key.
registerGroupInsertOnly(rows, group) == rows \cup {group}

\* INSERT INTO registered_groups ... ON CONFLICT(folder) DO UPDATE SET
\* name = excluded.name, ...: a new folder gets a row, the row of a known
\* folder gets the new fields and keeps its added_at.
registerGroup(rows, group) ==
  IF \E r \in rows : r.folder = group.folder
    THEN {IF r.folder = group.folder THEN [r EXCEPT !.name = group.name]
          ELSE r : r \in rows}
    ELSE rows \cup {group}

\* SELECT * FROM registered_groups, each row as a RegisteredGroup.
getRegisteredGroups(rows) ==
  {[name |-> r.name, folder |-> r.folder, added_at |-> r.added_at] : r \in rows}

\* The handler of an accepted command (onScheduleTask, onPauseTask,
\* onResumeTask, onCancelTask, onRefreshGroups, onRegisterGroup).
Apply(b, f) ==
  CASE f.cmd.type = "schedule_task" ->
         [b EXCEPT !.scheduledTasks =
            [t \in DOMAIN @ \cup {NewTaskId(f)} |->
               IF t = NewTaskId(f)
                 THEN [group_folder |-> f.cmd.source_group, status |-> "active"]
                 ELSE @[t]]]
    [] f.cmd.type \in TaskOps ->
         [b EXCEPT !.scheduledTasks[f.cmd.target].status =
            NewStatus(f.cmd.type, @)]
    [] f.cmd.type = "refresh_groups" ->
         [b EXCEPT !.reloads = @ + 1]
    [] f.cmd.type = "register_group" ->
         [b EXCEPT !.registeredGroups =
                     [g \in DOMAIN @ \cup {f.cmd.target} |->
                        IF g = f.cmd.target THEN "registered by main" ELSE @[g]],
                   !.groupRows =
                     registerGroup(@, [folder |-> f.cmd.target,
                                       name |-> "registered by main",
                                       added_at |-> nextFile])]

\* Rejection handling: the file is moved to errors/ with its metadata
\* (original_file, error, source_group, processed_at). File names and
\* processed_at are times on one clock, the count of files written.
Quarantine(b, f, error) ==
  [b EXCEPT !.tasksFiles = @ \ {f},
            !.errorsDir = @ \cup {[name |-> f.name, error |-> error,
                                   source_group |-> f.cmd.source_group,
                                   processed_at |-> nextFile]}]

DeleteFileSkipped(b, f) == b

\* A processed file is deleted from tasks/.
DeleteFile(b, f) == [b EXCEPT !.tasksFiles = @ \ {f}]

ProcessFileDropsRejected(b, f) ==
  IF Rejection(b, f) = "ok"
    THEN DeleteFile([Apply(b, f) EXCEPT !.lastActed = Append(@, f.name)], f)
    ELSE DeleteFile(b, f)

\* One file of a scan: parse, authorize, then act and delete, or quarantine.
ProcessFile(b, f) ==
  LET error == Rejection(b, f)
  IN  IF error = "ok"
        THEN DeleteFile([Apply(b, f) EXCEPT !.lastActed = Append(@, f.name)], f)
        ELSE Quarantine(b, f, error)

\* The files of directory dir, in filename order.
RECURSIVE SortedFiles(_)
SortedFiles(files) ==
  IF files = {} THEN <<>>
  ELSE LET first == CHOOSE f \in files : \A o \in files : f.name <= o.name
       IN  <<first>> \o SortedFiles(files \ {first})

\* The listing of a scan: each group's tasks/ directory in turn, each in
\* filename order.
RECURSIVE Listing(_, _)
Listing(files, i) ==
  IF i > NumGroups THEN <<>>
  ELSE SortedFiles({f \in files : f.dir = GroupOrder[i]})
         \o Listing(files, i + 1)

RECURSIVE ProcessAll(_, _, _)
ProcessAll(b, listing, i) ==
  IF i > Len(listing) THEN b
  ELSE ProcessAll(ProcessFile(b, listing[i]), listing, i + 1)

\* A container of group dir writes a command file (write to .tmp, rename):
\* the MCP tools write their own group as source_group, a misbehaving agent
\* may write anything.
WriteCommand(dir, cmd) ==
  /\ nextFile <= MaxFiles
  /\ tasksFiles' = tasksFiles \cup {[name |-> nextFile, dir |-> dir, cmd |-> cmd]}
  /\ nextFile' = nextFile + 1
  /\ UNCHANGED <<errorsDir, scheduledTasks, registeredGroups, reloads, lastActed,
                 groupRows, notBusVars>>

\* One tick of the IPC watcher (every IPC_POLL_INTERVAL).
Scan ==
  /\ \E listing \in {Listing(tasksFiles, 1)} :
       \E done \in {ProcessAll([BusState EXCEPT !.lastActed = <<>>], listing, 1)} :
         CommitBus(done)
  /\ UNCHANGED <<nextFile, notBusVars>>

BusNext ==
  \/ \E dir \in Groups : \E cmd \in Commands : WriteCommand(dir, cmd)
  \/ Scan

\* ------------------------------------------------------------------------
\* Cursor (lastProcessed) and the message loop
\* ------------------------------------------------------------------------

\* Messages stored during one run of the model.
MaxMessages == 2

\* Latest message timestamp; the Cursor of a group starts at 0, before all.
MaxTime == 2

\* Output blocks counted per execution.
MaxBlocks == 1

\* Most message files held by one input/ directory.
MaxInput == 2

Timestamps == 1..MaxTime

\* A stored message is a user message without or with the trigger, or one
\* of the assistant's own (is_bot_message).
MessageKinds == {"plain", "mention", "bot"}

\* RegisteredGroup.requiresTrigger of each group (absent means true); the
\* main group's is never consulted.
RequiresTrigger == [main |-> TRUE, alpha |-> TRUE, beta |-> FALSE]

\* How an execution ends, seen from the orchestrator.
ExecOutcomes == Outcomes \cup {"disconnect"}

Failures == ExecOutcomes \ {"ok"}

NoExecution == [running |-> FALSE, previousCursor |-> 0, batch |-> <<>>,
                delivered |-> 0, outcome |-> "none"]

CursorInit ==
  /\ messages = {}
  /\ lastProcessed = [g \in Groups |-> 0]
  /\ exec = [g \in Groups |-> NoExecution]
  /\ followUps = [g \in Groups |-> <<>>]

RECURSIVE ByTimestamp(_)
ByTimestamp(ms) ==
  IF ms = {} THEN <<>>
  ELSE LET first == CHOOSE m \in ms : \A o \in ms : m.timestamp <= o.timestamp
       IN  <<first>> \o ByTimestamp(ms \ {first})

getNewMessagesInclusive(db, chatJid, since) ==
  ByTimestamp({m \in db : /\ m.chat_jid = chatJid
                          /\ m.timestamp >= since
                          /\ m.kind # "bot"})

\* SELECT * FROM messages WHERE chat_jid = ? AND timestamp > ?
\*   AND is_bot_message = 0 ORDER BY timestamp ASC
getNewMessages(db, chatJid, since) ==
  ByTimestamp({m \in db : /\ m.chat_jid = chatJid
                          /\ m.timestamp > since
                          /\ m.kind # "bot"})

\* A message matches the trigger pattern (@trigger, case-insensitive).
MatchesTrigger(m) == m.kind = "mention"

triggerDecisionAlways(folder, requiresTrigger, batch) == TRUE

\* Trigger detection over a batch: the main group always triggers, another
\* group with requiresTrigger !== false only on a pattern match.
triggerDecision(folder, requiresTrigger, batch) ==
  \/ folder = MAIN_GROUP_FOLDER
  \/ ~requiresTrigger
  \/ \E i \in 1..Len(batch) : MatchesTrigger(batch[i])

shouldTrigger(g, batch) == triggerDecision(g, RequiresTrigger[g], batch)

LatestTimestamp(batch) == batch[Len(batch)].timestamp

CursorAfterKeepAdvance(e, outcome, cursor) == cursor

CursorAfterAlwaysRollback(e, outcome, cursor) ==
  IF outcome \in Failures THEN e.previousCursor ELSE cursor

\* Cursor rollback: roll back on error unless output was already sent to
\* the channel.
CursorAfter(e, outcome, cursor) ==
  IF outcome \in Failures /\ e.delivered = 0 THEN e.previousCursor ELSE cursor

HasActiveContainerNever(g) == FALSE

\* Active containers are tracked per group, to route to IPC or to queue.
HasActiveContainer(g) == exec[g].running

\* A channel stores an inbound message (OnInboundMessage -> storeMessage).
StoreMessage(g, ts, kind) ==
  /\ Cardinality(messages) < MaxMessages
  /\ [chat_jid |-> g, timestamp |-> ts, kind |-> kind] \notin messages
  /\ messages' = messages \cup {[chat_jid |-> g, timestamp |-> ts, kind |-> kind]}
  /\ UNCHANGED <<lastProcessed, exec, followUps, notCursorVars>>

\* The poll finds new messages for g that trigger: the Cursor is advanced
\* to the latest of them and the execution starts.
StartExecution(g) ==
  /\ ~HasActiveContainer(g)
  /\ \E batch \in {getNewMessages(messages, g, lastProcessed[g])} :
       /\ batch # <<>>
       /\ shouldTrigger(g, batch)
       /\ exec' = [exec EXCEPT ![g] =
                     [running |-> TRUE, previousCursor |-> lastProcessed[g],
                      batch |-> batch, delivered |-> 0, outcome |-> "none"]]
       /\ lastProcessed' = [lastProcessed EXCEPT ![g] = LatestTimestamp(batch)]
  /\ UNCHANGED <<messages, followUps, notCursorVars>>

\* The poll finds new messages for g that do not trigger: they count as
\* seen.
SkipUntriggered(g) ==
  /\ ~HasActiveContainer(g)
  /\ \E batch \in {getNewMessages(messages, g, lastProcessed[g])} :
       /\ batch # <<>>
       /\ ~shouldTrigger(g, batch)
       /\ lastProcessed' = [lastProcessed EXCEPT ![g] = LatestTimestamp(batch)]
  /\ UNCHANGED <<messages, exec, followUps, notCursorVars>>

\* An output block of g's execution is sent to the channel (onOutput ->
\* channel.sendMessage).
DeliverOutput(g) ==
  /\ exec[g].running
  /\ exec[g].delivered < MaxBlocks
  /\ exec' = [exec EXCEPT ![g].delivered = @ + 1]
  /\ UNCHANGED <<messages, lastProcessed, followUps, notCursorVars>>

\* The execution of g ends with `outcome`.
EndExecution(g, outcome) ==
  /\ exec[g].running
  /\ exec' = [exec EXCEPT ![g].running = FALSE, ![g].outcome = outcome]
  /\ lastProcessed' =
       [lastProcessed EXCEPT ![g] = CursorAfter(exec[g], outcome, @)]
  /\ UNCHANGED <<messages, followUps, notCursorVars>>

\* The poll finds new messages for g while its container runs: each is
\* written as one file into ipc/{g}/input (writeFollowUpMessage).
RouteFollowUps(g) ==
  /\ HasActiveContainer(g)
  /\ \E batch \in {getNewMessages(messages, g, lastProcessed[g])} :
       /\ batch # <<>>
       /\ Len(followUps[g]) + Len(batch) <= MaxInput
       /\ followUps' = [followUps EXCEPT ![g] = @ \o batch]
  /\ UNCHANGED <<messages, lastProcessed, exec, notCursorVars>>

\* The running container of g drains its input directory (drainIpcInput):
\* every message file is read and deleted.
DrainFollowUps(g) ==
  /\ exec[g].running
  /\ followUps[g] # <<>>
  /\ followUps' = [followUps EXCEPT ![g] = <<>>]
  /\ UNCHANGED <<messages, lastProcessed, exec, notCursorVars>>

CursorNext ==
  \/ \E g \in Groups : \E ts \in Timestamps : \E kind \in MessageKinds :
       StoreMessage(g, ts, kind)
  \/ \E g \in Groups : StartExecution(g)
  \/ \E g \in Groups : SkipUntriggered(g)
  \/ \E g \in Groups : DeliverOutput(g)
  \/ \E g \in Groups : \E outcome \in ExecOutcomes : EndExecution(g, outcome)
  \/ \E g \in Groups : RouteFollowUps(g)
  \/ \E g \in Groups : DrainFollowUps(g)

\* ------------------------------------------------------------------------
\* Trigger decision of a registered group
\* ------------------------------------------------------------------------

\* Longest batch of new messages evaluated.
MaxBatch == 3

\* RegisteredGroup.requiresTrigger as given at registration: optional.
RequiresTriggerGiven == {"true", "false", "absent"}

\* Batches of user messages of length 0..MaxBatch, by kind.
RECURSIVE KindBatches(_)
KindBatches(n) ==
  IF n = 0 THEN {<<>>}
  ELSE LET shorter == KindBatches(n - 1)
       IN  shorter \cup
             {Append(b, [kind |-> k]) : b \in {x \in shorter : Len(x) = n - 1},
                                        k \in {"plain", "mention"}}

StoredRequiresTriggerTruthy(given) == IF given = "true" THEN 1 ELSE 0

\* registerGroup: requires_trigger = group.requiresTrigger === false ? 0 : 1
StoredRequiresTrigger(given) == IF given = "false" THEN 0 ELSE 1

\* getRegisteredGroups: requiresTrigger = row.requires_trigger === 0 ? false : true
LoadedRequiresTrigger(stored) == IF stored = 0 THEN FALSE ELSE TRUE

TriggerInit ==
  trigger = [folder |-> "none", given |-> "absent", batch |-> <<>>,
             decision |-> FALSE]

\* A group registered with `given` is loaded from the store and a batch of
\* its new messages is evaluated.
EvaluateTrigger(folder, given, batch) ==
  /\ \E loaded \in {LoadedRequiresTrigger(StoredRequiresTrigger(given))} :
       trigger' = [folder |-> folder, given |-> given, batch |-> batch,
                   decision |-> triggerDecision(folder, loaded, batch)]
  /\ UNCHANGED notTriggerVars

TriggerNext ==
  \E folder \in Groups : \E given \in RequiresTriggerGiven :
    \E batch \in KindBatches(MaxBatch) : EvaluateTrigger(folder, given, batch)

\* ------------------------------------------------------------------------
\* Orchestrator state machine and shutdown
\* ------------------------------------------------------------------------

\* Ticks of the grace period of the shutdown (30 s in a deployment).
GraceTicks == 2

OrchStates == {"INITIALIZING", "RECOVERING", "POLLING", "PROCESSING",
               "EXECUTING", "SHUTTING_DOWN", "STOPPED"}

OrchInit ==
  /\ orchState = [g \in Groups |-> "INITIALIZING"]
  /\ handle = [g \in Groups |-> "none"]
  /\ closeMarker = [g \in Groups |-> FALSE]
  /\ grace = GraceTicks
  /\ signals = 0
  /\ liveAtSignal = {}
  /\ killed = {}

Live(h) == {g \in Groups : h[g] = "live"}

\* INITIALIZING: configuration, store, image, subsystems and channels are up.
FinishInitializing ==
  /\ \A g \in Groups : orchState[g] = "INITIALIZING"
  /\ orchState' = [g \in Groups |-> "RECOVERING"]
  /\ UNCHANGED <<handle, closeMarker, grace, signals, liveAtSignal, killed,
                 notOrchVars>>

\* RECOVERING: the backlog of every registered group has been checked.
FinishRecovering ==
  /\ \A g \in Groups : orchState[g] = "RECOVERING"
  /\ orchState' = [g \in Groups |-> "POLLING"]
  /\ UNCHANGED <<handle, closeMarker, grace, signals, liveAtSignal, killed,
                 notOrchVars>>

\* POLLING: the poll finds new messages for g, which has no live handle.
PollFindsMessages(g) ==
  /\ orchState[g] = "POLLING"
  /\ handle[g] = "none"
  /\ orchState' = [orchState EXCEPT ![g] = "PROCESSING"]
  /\ UNCHANGED <<handle, closeMarker, grace, signals, liveAtSignal, killed,
                 notOrchVars>>

\* PROCESSING: the trigger conditions are evaluated; triggered, the
\* container of g is run.
EvaluateAndRun(g, triggered) ==
  /\ orchState[g] = "PROCESSING"
  /\ orchState' = [orchState EXCEPT ![g] =
                     IF triggered THEN "EXECUTING" ELSE "POLLING"]
  /\ handle' = [handle EXCEPT ![g] = IF triggered THEN "live" ELSE @]
  /\ closeMarker' = [closeMarker EXCEPT ![g] = FALSE]
  /\ UNCHANGED <<grace, signals, liveAtSignal, killed, notOrchVars>>

StateAfterExecutionAlwaysPolling(state) == "POLLING"

\* The state of a group once its container has exited.
StateAfterExecution(state) ==
  IF state = "EXECUTING" THEN "POLLING" ELSE state

\* EXECUTING: the container of g exits (by itself, or on reading _close).
ExecutionEnds(g) ==
  /\ handle[g] = "live"
  /\ handle' = [handle EXCEPT ![g] = "none"]
  /\ orchState' = [orchState EXCEPT ![g] = StateAfterExecution(@)]
  /\ UNCHANGED <<closeMarker, grace, signals, liveAtSignal, killed,
                 notOrchVars>>

\* SIGTERM or SIGINT: the polling loops stop and every active container is
\* signalled to close (writeCloseSentinel).
TerminationSignal ==
  /\ signals = 0
  /\ signals' = 1
  /\ orchState' = [g \in Groups |-> "SHUTTING_DOWN"]
  /\ closeMarker' = [g \in Groups |-> closeMarker[g] \/ handle[g] = "live"]
  /\ liveAtSignal' = Live(handle)
  /\ grace' = GraceTicks
  /\ UNCHANGED <<handle, killed, notOrchVars>>

\* A second signal: the grace wait is given up.
SecondSignal ==
  /\ signals = 1
  /\ \A g \in Groups : orchState[g] = "SHUTTING_DOWN"
  /\ signals' = 2
  /\ grace' = 0
  /\ UNCHANGED <<orchState, handle, closeMarker, liveAtSignal, killed,
                 notOrchVars>>

\* The wait for in-flight executions goes on.
GraceTick ==
  /\ \A g \in Groups : orchState[g] = "SHUTTING_DOWN"
  /\ Live(handle) # {}
  /\ grace > 0
  /\ grace' = grace - 1
  /\ UNCHANGED <<orchState, handle, closeMarker, signals, liveAtSignal, killed,
                 notOrchVars>>

StragglersNone(h) == {}

\* The executions still running when the wait ends.
Stragglers(h) == Live(h)

\* The wait is over (no execution left, or the grace period has run out):
\* stragglers are force-killed, channels disconnected, the store closed.
FinishShutdown ==
  /\ \A g \in Groups : orchState[g] = "SHUTTING_DOWN"
  /\ Live(handle) = {} \/ grace = 0
  /\ killed' = Stragglers(handle)
  /\ handle' = [g \in Groups |->
                  IF g \in Stragglers(handle) THEN "none" ELSE handle[g]]
  /\ orchState' = [g \in Groups |-> "STOPPED"]
  /\ UNCHANGED <<closeMarker, grace, signals, liveAtSignal, notOrchVars>>

OrchNext ==
  \/ FinishInitializing
  \/ FinishRecovering
  \/ \E g \in Groups : PollFindsMessages(g)
  \/ \E g \in Groups : \E triggered \in BOOLEAN : EvaluateAndRun(g, triggered)
  \/ \E g \in Groups : ExecutionEnds(g)
  \/ TerminationSignal
  \/ SecondSignal
  \/ GraceTick
  \/ FinishShutdown

\* ------------------------------------------------------------------------
\* Output Parser
\* ------------------------------------------------------------------------

\* Longest output stream explored, in characters.
MaxLen == 10

\* Characters of the stream: the markers are written with "-", "S" and "E",
\* and " " is whitespace.  Outside blocks the container writes NoiseChars,
\* inside a block TextChars; "E" and "S" not behind a "-" are characters
\* like any other.
NoiseChars == {"-", "E"}

TextChars == {"-", "S", " "}

\* ---NANOCLAW_OUTPUT_START---, on two characters
OUTPUT_START_MARKER == <<"-", "S">>

\* ---NANOCLAW_OUTPUT_END---, on two characters
OUTPUT_END_MARKER == <<"-", "E">>

\* String.prototype.indexOf(pattern, from), positions counted from 1;
\* 0 when there is no occurrence.
IndexOf(str, pattern, from) ==
  LET hits == {i \in from..(Len(str) - Len(pattern) + 1) :
                 SubSeq(str, i, i + Len(pattern) - 1) = pattern}
  IN  IF hits = {} THEN 0 ELSE CHOOSE i \in hits : \A j \in hits : i <= j

\* String.prototype.trim()
RECURSIVE Trim(_)
Trim(str) ==
  IF str = <<>> THEN str
  ELSE IF Head(str) = " " THEN Trim(Tail(str))
  ELSE IF str[Len(str)] = " " THEN Trim(SubSeq(str, 1, Len(str) - 1))
  ELSE str

BlockTextUntrimmed(str, contentStart, endIdx) ==
  SubSeq(str, contentStart, endIdx - 1)

\* raw.slice(contentStart, endIdx).trim()
BlockText(str, contentStart, endIdx) ==
  Trim(SubSeq(str, contentStart, endIdx - 1))

\* The loop of parseAllOutputs from position searchFrom, with the outputs
\* pushed so far; rest is the position the search would go on from.
RECURSIVE ParseLoop(_, _, _)
ParseLoop(str, searchFrom, outputs) ==
  LET startIdx == IndexOf(str, OUTPUT_START_MARKER, searchFrom)
      contentStart == startIdx + Len(OUTPUT_START_MARKER)
      endIdx == IndexOf(str, OUTPUT_END_MARKER, contentStart)
  IN  IF startIdx = 0 \/ endIdx = 0
        THEN [outputs |-> outputs, rest |-> searchFrom]
        ELSE ParseLoop(str, endIdx + Len(OUTPUT_END_MARKER),
                       Append(outputs, BlockText(str, contentStart, endIdx)))

parseAllOutputs(str) == ParseLoop(str, 1, <<>>).outputs

LastOutputKeepFirst(lastOutput, found) ==
  IF lastOutput = <<>> THEN found ELSE lastOutput

\* lastOutput = raw.slice(contentStart, endIdx).trim()
LastOutput(lastOutput, found) == found

\* The loop of parseContainerOutput: like that of parseAllOutputs, keeping
\* one output.
RECURSIVE ContainerLoop(_, _, _)
ContainerLoop(str, searchFrom, lastOutput) ==
  LET startIdx == IndexOf(str, OUTPUT_START_MARKER, searchFrom)
      contentStart == startIdx + Len(OUTPUT_START_MARKER)
      endIdx == IndexOf(str, OUTPUT_END_MARKER, contentStart)
  IN  IF startIdx = 0 THEN lastOutput
      ELSE IF endIdx = 0 THEN lastOutput
      ELSE ContainerLoop(str, endIdx + Len(OUTPUT_END_MARKER),
                         LastOutput(lastOutput,
                                    BlockText(str, contentStart, endIdx)))

parseContainerOutput(str) == ContainerLoop(str, 1, <<>>)

RemainderDropUnmarked(str, rest) ==
  IF IndexOf(str, OUTPUT_START_MARKER, rest) = 0
    THEN <<>>
    ELSE SubSeq(str, rest, Len(str))

\* What the streaming parser keeps of its buffer after a chunk: everything
\* behind the last complete block.
Remainder(str, rest) == SubSeq(str, rest, Len(str))

\* The streaming parser takes a chunk: it appends the chunk to its buffer,
\* emits every complete block of the buffer and keeps the remainder.
OnChunk(buf, chunk) ==
  LET parsed == ParseLoop(buf \o chunk, 1, <<>>)
  IN  [emitted |-> parsed.outputs,
       buffer |-> Remainder(buf \o chunk, parsed.rest)]

ParserInit ==
  /\ raw = <<>>
  /\ expected = <<>>
  /\ mode = "noise"
  /\ text = <<>>
  /\ consumed = 0
  /\ buffer = <<>>
  /\ blocks = <<>>

EndsWith(str, c) == str # <<>> /\ str[Len(str)] = c

\* The container writes a character outside a block: anything that does
\* not complete a START marker.
WriteNoise(c) ==
  /\ mode = "noise"
  /\ Len(raw) < MaxLen
  /\ ~(EndsWith(raw, "-") /\ c = "S")
  /\ raw' = Append(raw, c)
  /\ UNCHANGED <<expected, mode, text, consumed, buffer, blocks, notParserVars>>

\* The container starts a block (emitOutput writes the START marker).
BeginBlock ==
  /\ mode = "noise"
  /\ Len(raw) + Len(OUTPUT_START_MARKER) <= MaxLen
  /\ raw' = raw \o OUTPUT_START_MARKER
  /\ mode' = "text"
  /\ text' = <<>>
  /\ UNCHANGED <<expected, consumed, buffer, blocks, notParserVars>>

\* The container writes a character of the block's text: anything that does
\* not complete an END marker inside the text.
WriteText(c) ==
  /\ mode = "text"
  /\ Len(raw) < MaxLen
  /\ ~(EndsWith(text, "-") /\ c = "E")
  /\ raw' = Append(raw, c)
  /\ text' = Append(text, c)
  /\ UNCHANGED <<expected, mode, consumed, buffer, blocks, notParserVars>>

\* The container ends the block (emitOutput writes the END marker).
EndBlock ==
  /\ mode = "text"
  /\ Len(raw) + Len(OUTPUT_END_MARKER) <= MaxLen
  /\ raw' = raw \o OUTPUT_END_MARKER
  /\ mode' = "noise"
  /\ expected' = Append(expected, Trim(text))
  /\ text' = <<>>
  /\ UNCHANGED <<consumed, buffer, blocks, notParserVars>>

\* The host reads the next n characters of the container's stdout as one
\* chunk and hands it to the streaming parser.
ReadChunk(n) ==
  /\ consumed + n <= Len(raw)
  /\ \E result \in {OnChunk(buffer, SubSeq(raw, consumed + 1, consumed + n))} :
       /\ buffer' = result.buffer
       /\ blocks' = blocks \o result.emitted
  /\ consumed' = consumed + n
  /\ UNCHANGED <<raw, expected, mode, text, notParserVars>>

ParserNext ==
  \/ \E c \in NoiseChars : WriteNoise(c)
  \/ BeginBlock
  \/ \E c \in TextChars : WriteText(c)
  \/ EndBlock
  \/ \E n \in 1..MaxLen : ReadChunk(n)

\* ---------------------------------------------------------------------
\* Agent runner: the query loop of one non-scheduled container, and the
\* host writing follow-up files and the close sentinel into its input/
\* ---------------------------------------------------------------------

MaxFollowUps == 3

RECURSIVE SortedNames(_)
SortedNames(names) ==
  IF names = {} THEN <<>>
  ELSE LET first == CHOOSE n \in names : \A o \in names : n <= o
       IN  <<first>> \o SortedNames(names \ {first})

\* drainIpcInput: every .json file of the directory, in name order, is
\* read and unlinked; the result is the list of their messages. _close is
\* skipped. The files the host writes are well formed and hold a text.
drainIpcInput(files) == SortedNames(files)

shouldCloseNever(close) == FALSE

\* shouldClose: whether _close exists (the caller's step unlinks it).
shouldClose(close) == close

RunnerInit ==
  /\ inputFiles = {}
  /\ closeFile = FALSE
  /\ written = 0
  /\ closeWritten = FALSE
  /\ pc = "query"
  /\ ipcPolling = TRUE
  /\ closedDuringQuery = FALSE
  /\ streamDone = FALSE
  /\ pushed = <<>>
  /\ fed = {}
  /\ queries = 1

\* The process is alive while main runs or a pollIpc timer is armed.
Alive == pc \in {"query", "waiting"} \/ ipcPolling

\* The host routes a message to the live container: one more file, named
\* after the files before it.
HostWritesFollowUp ==
  /\ Alive
  /\ written < MaxFollowUps
  /\ written' = written + 1
  /\ inputFiles' = inputFiles \cup {written + 1}
  /\ UNCHANGED <<closeFile, closeWritten, pc, ipcPolling, closedDuringQuery,
                 streamDone, pushed, fed, queries, notRunnerVars>>

\* The host writes the close sentinel, once.
HostWritesClose ==
  /\ Alive
  /\ ~closeWritten
  /\ closeFile' = TRUE
  /\ closeWritten' = TRUE
  /\ UNCHANGED <<inputFiles, written, pc, ipcPolling, closedDuringQuery,
                 streamDone, pushed, fed, queries, notRunnerVars>>

\* The timer callback of the current query. With _close present it
\* unlinks it, ends the stream and disarms itself, before any drain;
\* otherwise it drains the directory and pushes every message. A push
\* reaches the agent while the query runs.
pollIpc ==
  /\ ipcPolling
  /\ IF shouldClose(closeFile)
       THEN /\ closeFile' = FALSE
            /\ closedDuringQuery' = TRUE
            /\ streamDone' = TRUE
            /\ ipcPolling' = FALSE
            /\ UNCHANGED <<inputFiles, pushed, fed>>
       ELSE /\ \E drained \in {drainIpcInput(inputFiles)} :
                 /\ pushed' = pushed \o drained
                 /\ fed' = IF pc = "query"
                             THEN fed \cup {drained[i] :
                                              i \in 1..Len(drained)}
                             ELSE fed
            /\ inputFiles' = {}
            /\ UNCHANGED <<closeFile, closedDuringQuery, streamDone,
                           ipcPolling>>
  /\ UNCHANGED <<written, closeWritten, pc, queries, notRunnerVars>>

\* The for-await over query() ends: polling stops, the response is
\* emitted, and main leaves the loop if _close arrived during the query,
\* else waits for the next message.
QueryEnds ==
  /\ pc = "query"
  /\ ipcPolling' = FALSE
  /\ pc' = IF closedDuringQuery THEN "closed" ELSE "waiting"
  /\ UNCHANGED <<inputFiles, closeFile, written, closeWritten,
                 closedDuringQuery, streamDone, pushed, fed, queries,
                 notRunnerVars>>

\* query() throws: the catch reports the error and main returns; the
\* timer of the query stays armed.
QueryFails ==
  /\ pc = "query"
  /\ pc' = "failed"
  /\ UNCHANGED <<inputFiles, closeFile, written, closeWritten, ipcPolling,
                 closedDuringQuery, streamDone, pushed, fed, queries,
                 notRunnerVars>>

\* One poll of waitForNextMessage. With _close present it unlinks it and
\* resolves null, and main leaves the loop. Otherwise it drains the
\* directory and, if there are messages, resolves messages[0]: main starts
\* the next query() with it as the prompt.
waitForNextMessage ==
  /\ pc = "waiting"
  /\ IF shouldClose(closeFile)
       THEN /\ closeFile' = FALSE
            /\ pc' = "closed"
            /\ UNCHANGED <<inputFiles, ipcPolling, closedDuringQuery,
                           streamDone, pushed, fed, queries>>
       ELSE /\ inputFiles # {}
            /\ \E drained \in {drainIpcInput(inputFiles)} :
                 /\ pushed' = Append(pushed, drained[1])
                 /\ fed' = fed \cup {drained[1]}
            /\ inputFiles' = {}
            /\ pc' = "query"
            /\ ipcPolling' = TRUE
            /\ closedDuringQuery' = FALSE
            /\ streamDone' = FALSE
            /\ queries' = queries + 1
            /\ UNCHANGED closeFile
  /\ UNCHANGED <<written, closeWritten, notRunnerVars>>

\* The query returning once its prompt stream has ended.
QueryReturns == streamDone /\ QueryEnds

RunnerNext ==
  \/ HostWritesFollowUp
  \/ HostWritesClose
  \/ pollIpc
  \/ QueryEnds
  \/ QueryFails
  \/ waitForNextMessage

\* ---------------------------------------------------------------------
\* MessageStream: the push-based async iterable handed to query()
\* ---------------------------------------------------------------------

MaxPush == 4

StreamInit ==
  /\ msQueue = <<>>
  /\ msWaiting = FALSE
  /\ msDone = FALSE
  /\ msIter = "idle"
  /\ msPushed = <<>>
  /\ msYielded = <<>>
  /\ msAtEnd = 0

IteratorStepDoneFirst(q, d) ==
  IF d THEN "return" ELSE IF Len(q) > 0 THEN "yield" ELSE "park"

\* One pass of the iterator's loop: yield the head of the queue while there
\* is one, return once done, else wait for a push or end.
IteratorStep(q, d) ==
  IF Len(q) > 0 THEN "yield" ELSE IF d THEN "return" ELSE "park"

\* The iterator runs until it suspends: at a yield, at its return, or at
\* the await of a new resolver.
RunIterator ==
  \E step \in {IteratorStep(msQueue, msDone)} :
    /\ msYielded' = IF step = "yield" THEN Append(msYielded, Head(msQueue))
                    ELSE msYielded
    /\ msQueue' = IF step = "yield" THEN Tail(msQueue) ELSE msQueue
    /\ msIter' = CASE step = "yield" -> "idle"
                   [] step = "return" -> "completed"
                   [] step = "park" -> "parked"
    /\ msWaiting' = (step = "park")

\* A call of the resolver that wakes nobody.
CallResolverLost(waiting, iter) == iter

\* this.waiting?.(): the resolver of the promise the iterator awaits, if
\* there is one, is called; a parked iterator is woken.
CallResolver(waiting, iter) ==
  IF waiting /\ iter = "parked" THEN "woken" ELSE iter

\* push(text): the message joins the queue and the resolver, if any, is
\* called.
push ==
  /\ Len(msPushed) < MaxPush
  /\ \E m \in {Len(msPushed) + 1} :
       /\ msQueue' = Append(msQueue, m)
       /\ msPushed' = Append(msPushed, m)
  /\ msIter' = CallResolver(msWaiting, msIter)
  /\ UNCHANGED <<msWaiting, msDone, msYielded, msAtEnd, notStreamVars>>

\* end(): done is set and the resolver, if any, is called.
end ==
  /\ ~msDone
  /\ msDone' = TRUE
  /\ msAtEnd' = Len(msPushed)
  /\ msIter' = CallResolver(msWaiting, msIter)
  /\ UNCHANGED <<msQueue, msWaiting, msPushed, msYielded, notStreamVars>>

\* The consumer asks for the next message of a suspended iterator.
ConsumerNext ==
  /\ msIter = "idle"
  /\ RunIterator
  /\ UNCHANGED <<msDone, msPushed, msAtEnd, notStreamVars>>

\* The awaited promise has resolved: waiting is cleared and the loop goes on.
Resume ==
  /\ msIter = "woken"
  /\ RunIterator
  /\ UNCHANGED <<msDone, msPushed, msAtEnd, notStreamVars>>

StreamNext ==
  \/ push
  \/ end
  \/ ConsumerNext
  \/ Resume

\* ---------------------------------------------------------------------
\* writeIpcCommand (container side) against the host's scan of tasks/
\* ---------------------------------------------------------------------

MaxWrites == 3

\* The length of a serialized command, in write units.
DocLen == 2

NoFile == [suffix |-> "none", bytes |-> 0]

WriterInit ==
  /\ wFiles = [w \in 1..MaxWrites |-> NoFile]
  /\ wRead = {}

TmpSuffixJson == "json"

\* tmpPath is .{filename}.tmp, finalPath is {filename}: the suffix of the
\* name the document is written under.
TmpSuffix == "tmp"

\* fs.writeFileSync(tmpPath, ...): the file is created empty ...
OpenTmp(w) ==
  /\ wFiles[w] = NoFile
  /\ wFiles' = [wFiles EXCEPT ![w] = [suffix |-> TmpSuffix, bytes |-> 0]]
  /\ UNCHANGED <<wRead, notWriterVars>>

\* ... and filled; a reader of the directory sees every stage.
WriteBytes(w) ==
  /\ wFiles[w].suffix # "none"
  /\ wFiles[w].bytes < DocLen
  /\ wFiles' = [wFiles EXCEPT ![w].bytes = @ + 1]
  /\ UNCHANGED <<wRead, notWriterVars>>

\* fs.renameSync(tmpPath, finalPath), after writeFileSync has returned.
Rename(w) ==
  /\ wFiles[w].suffix # "none"
  /\ wFiles[w].bytes = DocLen
  /\ wFiles[w].suffix = TmpSuffix
  /\ wFiles' = [wFiles EXCEPT ![w].suffix = "json"]
  /\ UNCHANGED <<wRead, notWriterVars>>

\* A scan of the host: every file of tasks/ whose name ends in .json is
\* read and taken out of the directory.
ScanTasks ==
  /\ \E found \in {{w \in 1..MaxWrites : wFiles[w].suffix = "json"}} :
       /\ found # {}
       /\ wRead' = wRead \cup {[file |-> w, bytes |-> wFiles[w].bytes] :
                                 w \in found}
       /\ wFiles' = [w \in 1..MaxWrites |->
                       IF w \in found THEN [suffix |-> "gone", bytes |-> 0]
                       ELSE wFiles[w]]
  /\ UNCHANGED notWriterVars

WriterNext ==
  \/ \E w \in 1..MaxWrites : OpenTmp(w) \/ WriteBytes(w) \/ Rename(w)
  \/ ScanTasks

\* ---------------------------------------------------------------------
\* An IpcCommand through JSON.stringify, the file, and JSON.parse
\* ---------------------------------------------------------------------

\* Longest payload string, in symbols.
MaxStr == 1

\* What a string is made of: a run of ordinary characters, a double
\* quote, a backslash, a line break.
StringSymbols == {"a", "\"", "\\", "\n"}

RECURSIVE StringsUpTo(_)
StringsUpTo(n) ==
  IF n = 0 THEN {<<>>}
  ELSE LET shorter == StringsUpTo(n - 1)
       IN  shorter \cup {Append(s, c) : s \in shorter, c \in StringSymbols}

\* Payloads of register_group: folder, and trigger when given.
Payloads ==
  {[k \in {<<"folder">>} |-> v] : v \in StringsUpTo(MaxStr)}
    \cup {[k \in {<<"folder">>, <<"trigger">>} |->
             IF k = <<"folder">> THEN v ELSE t] :
            v \in StringsUpTo(MaxStr), t \in StringsUpTo(MaxStr)}

IpcCommands ==
  [type : {<<"register_group">>, <<"refresh_groups">>},
   payload : Payloads,
   source_group : {<<"main">>, <<"a", "\"">>}]

NoCommand == [type |-> <<>>, payload |-> <<>>, source_group |-> <<>>]

RoundTripInit ==
  /\ rtCommand = NoCommand
  /\ rtFile = <<>>
  /\ rtParsed = NoCommand
  /\ rtStage = "idle"

EscapeNothing(c) == <<c>>

\* JSON.stringify of one character of a string.
Escape(c) ==
  CASE c = "\"" -> <<"\\", "\"">>
    [] c = "\\" -> <<"\\", "\\">>
    [] c = "\n" -> <<"\\", "n">>
    [] OTHER -> <<c>>

RECURSIVE EscapeAll(_)
EscapeAll(str) ==
  IF str = <<>> THEN <<>> ELSE Escape(Head(str)) \o EscapeAll(Tail(str))

\* JSON.stringify of a string.
JsonString(str) == <<"\"">> \o EscapeAll(str) \o <<"\"">>

\* The members of a payload, in a fixed order, each on a line of its own.
RECURSIVE JsonMembers(_, _)
JsonMembers(obj, keys) ==
  IF keys = {} THEN <<>>
  ELSE LET k == CHOOSE x \in keys : \A y \in keys : Len(x[1]) <= Len(y[1])
       IN  <<"\n", " ">> \o JsonString(k) \o <<":", " ">> \o JsonString(obj[k])
             \o (IF keys = {k} THEN <<"\n">> ELSE <<",">>)
             \o JsonMembers(obj, keys \ {k})

\* JSON.stringify(command, null, 2)
Stringify(cmd) ==
  <<"{", "\n", " ">> \o JsonString(<<"type">>) \o <<":", " ">>
    \o JsonString(cmd.type) \o <<",", "\n", " ">>
    \o JsonString(<<"payload">>) \o <<":", " ", "{">>
    \o JsonMembers(cmd.payload, DOMAIN cmd.payload) \o <<"}", ",", "\n", " ">>
    \o JsonString(<<"source_group">>) \o <<":", " ">>
    \o JsonString(cmd.source_group) \o <<"\n", "}">>

RECURSIVE SkipWhitespace(_, _)
SkipWhitespace(doc, i) ==
  IF i <= Len(doc) /\ doc[i] \in {" ", "\n"} THEN SkipWhitespace(doc, i + 1)
  ELSE i

\* JSON.parse of a string, from the character after its opening quote: the
\* string and the position after its closing quote (0 when there is none).
RECURSIVE ScanString(_, _, _)
ScanString(doc, i, acc) ==
  IF i > Len(doc) THEN [value |-> acc, next |-> 0]
  ELSE IF doc[i] = "\"" THEN [value |-> acc, next |-> i + 1]
  ELSE IF doc[i] = "\\" /\ i < Len(doc)
    THEN ScanString(doc, i + 2,
                    Append(acc, IF doc[i + 1] = "n" THEN "\n" ELSE doc[i + 1]))
  ELSE ScanString(doc, i + 1, Append(acc, doc[i]))

\* JSON.parse of the members of an object, from the character after its
\* opening brace: the object and the position after its closing brace (0
\* for a syntax error). A member's value is a string or an object.
RECURSIVE ScanMembers(_, _, _)
ScanMembers(doc, i, acc) ==
  LET at == SkipWhitespace(doc, i)
  IN  IF at = 0 \/ at > Len(doc) THEN [value |-> acc, next |-> 0]
      ELSE IF doc[at] = "}" THEN [value |-> acc, next |-> at + 1]
      ELSE IF doc[at] = "," THEN ScanMembers(doc, at + 1, acc)
      ELSE IF doc[at] # "\"" THEN [value |-> acc, next |-> 0]
      ELSE
        LET key == ScanString(doc, at + 1, <<>>)
            colon == IF key.next = 0 THEN 0 ELSE SkipWhitespace(doc, key.next)
            start == IF colon = 0 \/ colon > Len(doc) \/ doc[colon] # ":"
                       THEN 0 ELSE SkipWhitespace(doc, colon + 1)
        IN  IF start = 0 \/ start > Len(doc) THEN [value |-> acc, next |-> 0]
            ELSE
              LET member ==
                    IF doc[start] = "{" THEN ScanMembers(doc, start + 1, <<>>)
                    ELSE IF doc[start] = "\""
                      THEN ScanString(doc, start + 1, <<>>)
                    ELSE [value |-> <<>>, next |-> 0]
                  object == [k \in DOMAIN acc \cup {key.value} |->
                               IF k = key.value THEN member.value ELSE acc[k]]
              IN  IF member.next = 0 THEN [value |-> acc, next |-> 0]
                  ELSE ScanMembers(doc, member.next, object)

\* JSON.parse(fs.readFileSync(file)) as IpcCommand; NoCommand when the
\* document does not parse or lacks a field.
ParseCommand(doc) ==
  IF doc = <<>> \/ doc[1] # "{" THEN NoCommand
  ELSE LET parsed == ScanMembers(doc, 2, <<>>)
       IN  IF parsed.next = 0
              \/ {<<"type">>, <<"payload">>, <<"source_group">>}
                   # DOMAIN parsed.value
             THEN NoCommand
             ELSE [type |-> parsed.value[<<"type">>],
                   payload |-> parsed.value[<<"payload">>],
                   source_group |-> parsed.value[<<"source_group">>]]

\* A tool call builds the command it is about to write.
BuildCommand(cmd) ==
  /\ rtStage = "idle"
  /\ rtCommand' = cmd
  /\ rtStage' = "new"
  /\ UNCHANGED <<rtFile, rtParsed, notRoundTripVars>>

\* writeIpcCommand: the document reaches the file.
WriteFile ==
  /\ rtStage = "new"
  /\ rtFile' = Stringify(rtCommand)
  /\ rtStage' = "written"
  /\ UNCHANGED <<rtCommand, rtParsed, notRoundTripVars>>

\* The reader reads the file and parses it.
ReadFile ==
  /\ rtStage = "written"
  /\ rtParsed' = ParseCommand(rtFile)
  /\ rtStage' = "read"
  /\ UNCHANGED <<rtCommand, rtFile, notRoundTripVars>>

RoundTripNext ==
  \/ \E cmd \in IpcCommands : BuildCommand(cmd)
  \/ WriteFile
  \/ ReadFile

\* ---------------------------------------------------------------------
\* Container Runner: deadline, output limit and exit classification
\* ---------------------------------------------------------------------

\* Maximum total output size, in units.
MaxOutputSize == 3

\* The hard wall-clock deadline, in ticks.
DeadlineTicks == 4

\* Exit codes of a process that ends by itself, and of one that was
\* terminated (it may still exit 0 on the graceful signal).
OwnExitCodes == {0, 1, 2}

KilledExitCodes == {0, 137}

NoResult == [exitCode |-> -1, timedOut |-> FALSE]

ExitInit ==
  /\ cState = "running"
  /\ cOutput = 0
  /\ cElapsed = 0
  /\ cCause = "none"
  /\ cResult = NoResult
  /\ cClass = "none"

\* The subprocess writes output, which is counted while it runs; past the
\* limit it is terminated early.
EmitBytes ==
  /\ cState = "running"
  /\ cOutput' = cOutput + 1
  /\ IF cOutput + 1 > MaxOutputSize
       THEN cState' = "killed" /\ cCause' = "size"
       ELSE UNCHANGED <<cState, cCause>>
  /\ UNCHANGED <<cElapsed, cResult, cClass, notExitVars>>

\* Time passes for a running subprocess, up to its deadline.
ClockTick ==
  /\ cState = "running"
  /\ cElapsed < DeadlineTicks
  /\ cElapsed' = cElapsed + 1
  /\ UNCHANGED <<cState, cOutput, cCause, cResult, cClass, notExitVars>>

\* The wall-clock deadline expires on a running subprocess: it is
\* terminated, gracefully then forcibly.
DeadlineExpires ==
  /\ cState = "running"
  /\ cElapsed = DeadlineTicks
  /\ cState' = "killed"
  /\ cCause' = "deadline"
  /\ UNCHANGED <<cOutput, cElapsed, cResult, cClass, notExitVars>>

ClassifyByExitCodeFirst(cause, exitCode, size) ==
  IF exitCode # 0 THEN "crashed"
  ELSE IF cause = "deadline" THEN "timed_out"
  ELSE IF size > MaxOutputSize THEN "crashed"
  ELSE "clean"

\* Exit classification: timed-out when killed by the deadline, crashed on
\* an output over the limit or a nonzero exit not caused by the deadline,
\* clean otherwise.
Classify(cause, exitCode, size) ==
  IF cause = "deadline" THEN "timed_out"
  ELSE IF cause = "size" \/ size > MaxOutputSize THEN "crashed"
  ELSE IF exitCode # 0 THEN "crashed"
  ELSE "clean"

\* The subprocess exits with code `code`; the exit is captured and
\* classified.
ProcessExit(code) ==
  /\ cState \in {"running", "killed"}
  /\ code \in IF cState = "running" THEN OwnExitCodes ELSE KilledExitCodes
  /\ cState' = "exited"
  /\ cResult' = [exitCode |-> code, timedOut |-> cCause = "deadline"]
  /\ cClass' = Classify(cCause, code, cOutput)
  /\ UNCHANGED <<cOutput, cElapsed, cCause, notExitVars>>

ExitNext ==
  \/ EmitBytes
  \/ ClockTick
  \/ DeadlineExpires
  \/ \E code \in OwnExitCodes \cup KilledExitCodes : ProcessExit(code)

\* ------------------------------------------------------------------------
\* Session identifiers of executions (add-orchestrator, src/index.ts)
\* ------------------------------------------------------------------------

\* Executions containerInputs in one behaviour.
MaxExecutions == 3

\* Continuation turns delivered in one behaviour.
MaxTurns == 2

SessionInit ==
  /\ sessions = [g \in Groups |-> 0]
  /\ uuidCount = 0
  /\ containerInputs = <<>>
  /\ liveInput = [g \in Groups |-> 0]
  /\ turnLog = <<>>

\* sessionId ?? crypto.randomUUID(): the stored id when there is one, else
\* a UUID no earlier call has returned. Session ids are positive numbers,
\* 0 stands for undefined.
InputSessionId(sessionId, count) ==
  IF sessionId # 0 THEN sessionId ELSE count + 1

\* The orchestrator builds the ContainerInput of a new execution of group g.
BuildContainerInput(g) ==
  /\ liveInput[g] = 0
  /\ Len(containerInputs) < MaxExecutions
  /\ LET sid == InputSessionId(sessions[g], uuidCount)
     IN  /\ containerInputs' = Append(containerInputs, [groupFolder |-> g, sessionId |-> sid])
         /\ uuidCount' = IF sessions[g] # 0 THEN uuidCount
                         ELSE uuidCount + 1
  /\ liveInput' = [liveInput EXCEPT ![g] = Len(containerInputs) + 1]
  /\ UNCHANGED <<sessions, turnLog, notSessionVars>>

\* The session id of group g's live execution is kept in AppState.sessions
\* (the sessions table, one row per group_folder).
SaveSession(g) ==
  /\ liveInput[g] # 0
  /\ sessions[g] # containerInputs[liveInput[g]].sessionId
  /\ sessions' = [sessions EXCEPT ![g] = containerInputs[liveInput[g]].sessionId]
  /\ UNCHANGED <<uuidCount, containerInputs, liveInput, turnLog, notSessionVars>>

\* A message for a group with a running container is written to its input
\* directory; the running execution keeps the session id it was containerInputs with.
FollowUpTurn(g) ==
  /\ liveInput[g] # 0
  /\ Len(turnLog) < MaxTurns
  /\ turnLog' = Append(turnLog, [execution |-> liveInput[g],
                                 sessionId |-> containerInputs[liveInput[g]].sessionId])
  /\ UNCHANGED <<sessions, uuidCount, containerInputs, liveInput, notSessionVars>>

\* The container of group g exits.
ContainerExits(g) ==
  /\ liveInput[g] # 0
  /\ liveInput' = [liveInput EXCEPT ![g] = 0]
  /\ UNCHANGED <<sessions, uuidCount, containerInputs, turnLog, notSessionVars>>

SessionNext ==
  \/ \E g \in Groups : BuildContainerInput(g)
  \/ \E g \in Groups : SaveSession(g)
  \/ \E g \in Groups : FollowUpTurn(g)
  \/ \E g \in Groups : ContainerExits(g)

\* ------------------------------------------------------------------------
\* Secrets and the process environment (agent-runner, src/index.ts main)
\* ------------------------------------------------------------------------

\* Environment variable names: the API key and one more secret.
EnvKeys == {"ANTHROPIC_API_KEY", "GITHUB_TOKEN"}

\* An environment or a secrets map gives every key a value or "absent".
AmbientEnvs == [EnvKeys -> {"absent", "ambient"}]

InlineSecrets == [EnvKeys -> {"absent", "", "inline"}]

FileSecrets == [EnvKeys -> {"absent", "file"}]

NoEntries == [k \in EnvKeys |-> "absent"]

\* Object.keys(map).length
KeyCount(map) == Cardinality({k \in EnvKeys : map[k] # "absent"})

\* if (value): a present, non-empty string.
Truthy(value) == value \notin {"absent", ""}

EnvInit ==
  /\ envStage = "idle"
  /\ ambientEnv = NoEntries
  /\ processEnv = NoEntries
  /\ stdinSecrets = [given |-> FALSE, entries |-> NoEntries]
  /\ secretsFile = [exists |-> FALSE, entries |-> NoEntries]
  /\ sdkEnv = [passed |-> FALSE, entries |-> NoEntries]
  /\ fileRead = FALSE
  /\ mainRan = "none"

\* The container starts: ambient environment, stdin document and mounts.
readStdin(env, given, inline, exists, file) ==
  /\ envStage = "idle"
  /\ envStage' = "input"
  /\ ambientEnv' = env
  /\ processEnv' = env
  /\ stdinSecrets' = [given |-> given,
                      entries |-> IF given THEN inline ELSE NoEntries]
  /\ secretsFile' = [exists |-> exists,
                     entries |-> IF exists THEN file ELSE NoEntries]
  /\ UNCHANGED <<sdkEnv, fileRead, mainRan, notEnvVars>>

\* if (!secrets || Object.keys(secrets).length === 0)
NeedsFallback(secrets) == ~secrets.given \/ KeyCount(secrets.entries) = 0

\* The secrets main works with after the fallback.
EffectiveSecrets(secrets, file) ==
  IF NeedsFallback(secrets) /\ file.exists
  THEN [given |-> TRUE, entries |-> file.entries]
  ELSE secrets

\* { ...process.env } with every truthy secret merged over it.
MergeSecrets(env, entries) ==
  [k \in EnvKeys |-> IF Truthy(entries[k]) THEN entries[k] ELSE env[k]]

\* main, first definition: the secrets go into a clone of process.env that
\* is handed to query(); Object.entries(undefined) throws.
mainFirst ==
  /\ envStage = "input"
  /\ mainRan' = "first"
  /\ fileRead' = (NeedsFallback(stdinSecrets) /\ secretsFile.exists)
  /\ LET secrets == EffectiveSecrets(stdinSecrets, secretsFile)
     IN  IF secrets.given
         THEN /\ sdkEnv' = [passed |-> TRUE,
                            entries |-> MergeSecrets(processEnv,
                                                     secrets.entries)]
              /\ envStage' = "done"
         ELSE /\ sdkEnv' = sdkEnv
              /\ envStage' = "failed"
  /\ UNCHANGED <<ambientEnv, processEnv, stdinSecrets, secretsFile,
                 notEnvVars>>

\* main, second definition: the API key of the input is assigned to
\* process.env and query() gets no env option; reading a property of an
\* undefined secrets map throws.
mainSecond ==
  /\ envStage = "input"
  /\ mainRan' = "second"
  /\ IF stdinSecrets.given
     THEN /\ processEnv' =
               IF Truthy(stdinSecrets.entries["ANTHROPIC_API_KEY"])
               THEN [processEnv EXCEPT !["ANTHROPIC_API_KEY"] =
                       stdinSecrets.entries["ANTHROPIC_API_KEY"]]
               ELSE processEnv
          /\ envStage' = "done"
     ELSE /\ processEnv' = processEnv
          /\ envStage' = "failed"
  /\ UNCHANGED <<ambientEnv, stdinSecrets, secretsFile, sdkEnv, fileRead,
                 notEnvVars>>

EnvNext ==
  \/ \E env \in AmbientEnvs, given \in BOOLEAN, inline \in InlineSecrets,
        exists \in BOOLEAN, file \in FileSecrets :
       readStdin(env, given, inline, exists, file)
  \/ mainFirst
  \/ mainSecond

\* ------------------------------------------------------------------------
\* Crash recovery: the backlog check at startup (add-orchestrator)
\* ------------------------------------------------------------------------

\* Latest timestamp of a message stored before the restart.
MaxStoredTime == 2

\* The registered groups the restarted orchestrator finds, in scan order.
RecoveryOrder == SubSeq(GroupOrder, 1, 2)

RecoveryGroups == {RecoveryOrder[i] : i \in 1..Len(RecoveryOrder)}

\* What the store may hold: per group and timestamp no message, a user
\* message or one of the assistant's own.
StoredTables ==
  [RecoveryGroups \X (1..MaxStoredTime) -> {"none", "plain", "bot"}]

TableRows(table) ==
  {[chat_jid |-> k[1], timestamp |-> k[2], kind |-> table[k]] :
     k \in {x \in DOMAIN table : table[x] # "none"}}

RecoveryInit ==
  /\ recState = "INITIALIZING"
  /\ recStore = {}
  /\ recCursor = [g \in RecoveryGroups |-> 0]
  /\ recNext = 1
  /\ recSubmitted = [g \in RecoveryGroups |-> <<>>]

\* Init: the store is opened and the router state loaded.
LoadState(table, cursors) ==
  /\ recState = "INITIALIZING"
  /\ recState' = "RECOVERING"
  /\ recStore' = TableRows(table)
  /\ recCursor' = cursors
  /\ UNCHANGED <<recNext, recSubmitted, notRecoveryVars>>

\* A backlog of one message is passed over.
HasBacklogMoreThanOne(batch) == Len(batch) > 1

\* The group has unprocessed messages.
HasBacklog(batch) == Len(batch) > 0

\* RECOVERING: the next registered group is checked for messages after its
\* last-processed timestamp; a backlog is handed to the group queue.
RecoverGroup ==
  /\ recState = "RECOVERING"
  /\ recNext <= Len(RecoveryOrder)
  /\ LET g == RecoveryOrder[recNext]
         batch == getNewMessages(recStore, g, recCursor[g])
     IN  recSubmitted' = IF HasBacklog(batch)
                         THEN [recSubmitted EXCEPT ![g] = batch]
                         ELSE recSubmitted
  /\ recNext' = recNext + 1
  /\ UNCHANGED <<recState, recStore, recCursor, notRecoveryVars>>

\* Every group has been checked: the normal polling loop starts.
EnterPolling ==
  /\ recState = "RECOVERING"
  /\ recNext > Len(RecoveryOrder)
  /\ recState' = "POLLING"
  /\ UNCHANGED <<recStore, recCursor, recNext, recSubmitted, notRecoveryVars>>

RecoveryNext ==
  \/ /\ recState = "INITIALIZING"
     /\ \E table \in StoredTables :
          \E cursors \in [RecoveryGroups -> 0..MaxStoredTime] :
            LoadState(table, cursors)
  \/ RecoverGroup
  \/ EnterPolling

\* ------------------------------------------------------------------------
\* Successive containers of one group over one input/ directory
\* (agent-runner main, the host's follow-up files and close sentinel)
\* ------------------------------------------------------------------------

\* Containers started for the group in one behaviour.
MaxHandles == 3

\* Follow-up files the host writes in one behaviour.
MaxRouted == 2

LifeInit ==
  /\ dirFiles = {}
  /\ dirClose = 0
  /\ routed = 0
  /\ hNo = 0
  /\ hPc = "none"
  /\ hScheduled = FALSE
  /\ hPolling = FALSE
  /\ hClosed = FALSE
  /\ hQueries = 0
  /\ hBlocks = 0
  /\ hErrors = 0
  /\ hLog = FALSE
  /\ hArchived = FALSE
  /\ consumedLog = {}
  /\ fedFiles = {}
  /\ scheduledRuns = {}

\* let ipcPolling = !input.isScheduledTask, armed for every run.
PollsDuringQueryAlways(isScheduledTask) == TRUE

\* let ipcPolling = !input.isScheduledTask
PollsDuringQuery(isScheduledTask) == ~isScheduledTask

\* The messages of the prompt of a new execution. Whether routing a
\* message moves the Cursor is not fixed by the documents: if it does not,
\* the poll that starts the execution finds the routed messages again
\* (refetch) and they are part of the batch.
PromptMessages(isScheduledTask, refetch, count) ==
  IF refetch /\ ~isScheduledTask THEN 1..count ELSE {}

\* The host runs a container for the group; main creates input/ if it is
\* missing (mkdirSync, recursive), pushes the prompt and calls query().
ContainerStarts(isScheduledTask, refetch) ==
  /\ hPc = "none"
  /\ hNo < MaxHandles
  /\ hNo' = hNo + 1
  /\ hPc' = "query"
  /\ hScheduled' = isScheduledTask
  /\ scheduledRuns' = IF isScheduledTask THEN scheduledRuns \cup {hNo + 1}
                      ELSE scheduledRuns
  /\ hPolling' = PollsDuringQuery(isScheduledTask)
  /\ hClosed' = FALSE
  /\ hQueries' = 1
  /\ hBlocks' = 0
  /\ hErrors' = 0
  /\ hLog' = FALSE
  /\ hArchived' = FALSE
  /\ fedFiles' = fedFiles \cup PromptMessages(isScheduledTask, refetch, routed)
  /\ UNCHANGED <<dirFiles, dirClose, routed, consumedLog, notLifeVars>>

\* A message arrives for the group while its container runs: the host
\* writes it into input/ (writeFollowUpMessage).
RouteFollowUp ==
  /\ hPc # "none"
  /\ routed < MaxRouted
  /\ routed' = routed + 1
  /\ dirFiles' = dirFiles \cup {[name |-> routed + 1, handle |-> hNo]}
  /\ UNCHANGED <<dirClose, hNo, hPc, hScheduled, hPolling, hClosed, hQueries,
                 hBlocks, hErrors, hLog, hArchived, consumedLog, fedFiles,
                 scheduledRuns, notLifeVars>>

\* The host signals the running container to finish (writeCloseSentinel).
WriteCloseSentinel ==
  /\ hPc # "none"
  /\ dirClose # hNo
  /\ dirClose' = hNo
  /\ UNCHANGED <<dirFiles, routed, hNo, hPc, hScheduled, hPolling, hClosed,
                 hQueries, hBlocks, hErrors, hLog, hArchived, consumedLog,
                 fedFiles, scheduledRuns, notLifeVars>>

\* What a drain of the directory adds to the log of reads.
DrainedBy(files, h) ==
  {[item |-> f.name, writtenFor |-> f.handle, consumedBy |-> h] : f \in files}

\* pollIpc: with _close present it unlinks it, ends the stream and disarms
\* itself (a process whose main has returned then exits); otherwise every
\* file of input/ is drained and pushed.
PollTimer ==
  /\ hPolling
  /\ IF dirClose # 0
       THEN /\ dirClose' = 0
            /\ consumedLog' = consumedLog \cup
                 {[item |-> 0, writtenFor |-> dirClose, consumedBy |-> hNo]}
            /\ hClosed' = TRUE
            /\ hPolling' = FALSE
            /\ hPc' = IF hPc = "failed" THEN "none" ELSE hPc
            /\ UNCHANGED <<dirFiles, fedFiles>>
       ELSE /\ dirFiles # {}
            /\ dirFiles' = {}
            /\ consumedLog' = consumedLog \cup DrainedBy(dirFiles, hNo)
            /\ fedFiles' = IF hPc = "query"
                           THEN fedFiles \cup {f.name : f \in dirFiles}
                           ELSE fedFiles
            /\ UNCHANGED <<dirClose, hClosed, hPolling, hPc>>
  /\ UNCHANGED <<routed, hNo, hScheduled, hQueries, hBlocks, hErrors,
                 hLog, hArchived, scheduledRuns, notLifeVars>>

\* if (closedDuringQuery || input.isScheduledTask) break
LeavesLoop(closed, isScheduledTask) == closed \/ isScheduledTask

\* The for-await over query() ends: polling stops, a non-empty response is
\* emitted and logged, and main leaves the loop (archiving the log) or
\* waits for the next message.
QueryCompletes(hasResponse) ==
  /\ hPc = "query"
  /\ hPolling' = FALSE
  /\ hBlocks' = IF hasResponse THEN hBlocks + 1 ELSE hBlocks
  /\ hLog' = (hLog \/ hasResponse)
  /\ IF LeavesLoop(hClosed, hScheduled)
       THEN hPc' = "none" /\ hArchived' = (hLog \/ hasResponse)
       ELSE hPc' = "waiting" /\ hArchived' = hArchived
  /\ UNCHANGED <<dirFiles, dirClose, routed, hNo, hScheduled, hClosed,
                 hQueries, hErrors, consumedLog, fedFiles, scheduledRuns,
                 notLifeVars>>

ErrorBlocksNone(errors) == errors

\* emitOutput(`I encountered an error: ${errMsg}`)
ErrorBlocks(errors) == errors + 1

\* query() throws: the catch emits the error as one block, the finally
\* archives a non-empty log, and main returns; an armed pollIpc timer
\* goes on and keeps the process.
QueryThrows ==
  /\ hPc = "query"
  /\ hErrors' = ErrorBlocks(hErrors)
  /\ hArchived' = hLog
  /\ hPc' = IF hPolling THEN "failed" ELSE "none"
  /\ UNCHANGED <<dirFiles, dirClose, routed, hNo, hScheduled, hPolling,
                 hClosed, hQueries, hBlocks, hLog, consumedLog, fedFiles,
                 scheduledRuns, notLifeVars>>

\* One poll of waitForNextMessage: _close ends the run; otherwise the
\* directory is drained and messages[0] is the prompt of the next query().
WaitPoll ==
  /\ hPc = "waiting"
  /\ IF dirClose # 0
       THEN /\ dirClose' = 0
            /\ consumedLog' = consumedLog \cup
                 {[item |-> 0, writtenFor |-> dirClose, consumedBy |-> hNo]}
            /\ hPc' = "none"
            /\ hArchived' = hLog
            /\ UNCHANGED <<dirFiles, fedFiles, hPolling, hClosed, hQueries>>
       ELSE /\ dirFiles # {}
            /\ dirFiles' = {}
            /\ consumedLog' = consumedLog \cup DrainedBy(dirFiles, hNo)
            /\ fedFiles' = fedFiles \cup
                 {(CHOOSE f \in dirFiles :
                     \A o \in dirFiles : f.name <= o.name).name}
            /\ hPc' = "query"
            /\ hPolling' = PollsDuringQuery(hScheduled)
            /\ hClosed' = FALSE
            /\ hQueries' = hQueries + 1
            /\ UNCHANGED <<dirClose, hArchived>>
  /\ UNCHANGED <<routed, hNo, hScheduled, hBlocks, hErrors, hLog,
                 scheduledRuns, notLifeVars>>

\* The container is killed (deadline, output limit, forced shutdown).
ContainerKilled ==
  /\ hPc # "none"
  /\ hPc' = "none"
  /\ hPolling' = FALSE
  /\ UNCHANGED <<dirFiles, dirClose, routed, hNo, hScheduled, hClosed,
                 hQueries, hBlocks, hErrors, hLog, hArchived, consumedLog,
                 fedFiles, scheduledRuns, notLifeVars>>

LifeNext ==
  \/ \E isScheduledTask, refetch \in BOOLEAN :
       ContainerStarts(isScheduledTask, refetch)
  \/ RouteFollowUp
  \/ WriteCloseSentinel
  \/ PollTimer
  \/ \E hasResponse \in BOOLEAN : QueryCompletes(hasResponse)
  \/ QueryThrows
  \/ WaitPoll
  \/ ContainerKilled

\* ------------------------------------------------------------------------
\* drainIpcInput (agent-runner, src/index.ts) over every kind of entry
\* ------------------------------------------------------------------------

\* Files written into input/ in one behaviour.
MaxDirWrites == 3

\* File names without their suffix: strings of one or two digits.
NameDigits == {1, 2}

BaseNames ==
  {<<d>> : d \in NameDigits} \cup {<<d, e>> : d, e \in NameDigits}

\* What an entry of input/ can be: a .json file with a text, a .json file
\* that parses but has no text, a .json file that does not parse, and a
\* file whose name does not end in .json (a .tmp file being written).
EntryKinds == {"message", "empty", "garbage", "tmp"}

\* a < b in the order of Array.prototype.sort() on the file names: by code
\* unit, the '.' of the suffix before every digit.
RECURSIVE LexLess(_, _)
LexLess(a, b) ==
  IF a = <<>> THEN b # <<>>
  ELSE IF b = <<>> THEN FALSE
  ELSE IF Head(a) # Head(b) THEN Head(a) < Head(b)
  ELSE LexLess(Tail(a), Tail(b))

\* fs.readdirSync(inputDir).sort()
RECURSIVE SortedEntries(_)
SortedEntries(entries) ==
  IF entries = {} THEN <<>>
  ELSE LET first == CHOOSE e \in entries :
                      \A o \in entries : o = e \/ LexLess(e.name, o.name)
       IN  <<first>> \o SortedEntries(entries \ {first})

DrainInit ==
  /\ drainDir = {}
  /\ usedNames = {}
  /\ closePresent = FALSE
  /\ drainLog = <<>>

SkippedNothing(kind) == FALSE

\* if (file === '_close' || !file.endsWith('.json')) continue
Skipped(kind) == kind = "tmp"

\* The loop of drainIpcInput from entry i on: a .json file is read and
\* unlinked, also when JSON.parse throws; its text, if it has one, joins
\* the messages.
RECURSIVE DrainLoop(_, _, _)
DrainLoop(files, i, acc) ==
  IF i > Len(files) THEN acc
  ELSE LET file == files[i]
       IN  IF Skipped(file.kind) THEN DrainLoop(files, i + 1, acc)
           ELSE DrainLoop(files, i + 1,
                  [messages |-> IF file.kind = "message"
                                THEN Append(acc.messages, file.name)
                                ELSE acc.messages,
                   left |-> acc.left \ {file}])

\* drainIpcInput(inputDir): the messages returned and the entries left.
\* _close is no entry of the listing that the loop touches.
drainDirectory(entries) ==
  DrainLoop(SortedEntries(entries), 1, [messages |-> <<>>, left |-> entries])

\* The host (or anything else) puts a file into input/ under a new name.
WriteEntry(name, kind) ==
  /\ Cardinality(usedNames) < MaxDirWrites
  /\ name \notin usedNames
  /\ usedNames' = usedNames \cup {name}
  /\ drainDir' = drainDir \cup {[name |-> name, kind |-> kind]}
  /\ UNCHANGED <<closePresent, drainLog, notDrainVars>>

\* The host writes _close.
WriteCloseMarker ==
  /\ ~closePresent
  /\ closePresent' = TRUE
  /\ UNCHANGED <<drainDir, usedNames, drainLog, notDrainVars>>

\* One call of drainIpcInput.
DrainOnce ==
  /\ drainDir # {}
  /\ Len(drainLog) < MaxDirWrites
  /\ \E result \in {drainDirectory(drainDir)} :
       /\ drainDir' = result.left
       /\ drainLog' = Append(drainLog, result.messages)
  /\ UNCHANGED <<usedNames, closePresent, notDrainVars>>

DrainNext ==
  \/ \E name \in BaseNames : \E kind \in EntryKinds : WriteEntry(name, kind)
  \/ WriteCloseMarker
  \/ DrainOnce

\* ------------------------------------------------------------------------
\* MCP tools of the agent-runner (src/mcp-server.ts) and the commands they
\* write
\* ------------------------------------------------------------------------

\* Tool calls that write a command, in one behaviour.
MaxToolCalls == 2

\* No container is running.
NoConfig == [groupFolder |-> "none", isMain |-> FALSE]

\* The tools of createMcpServer that write an IPC command.
TaskTools == {"schedule_task", "pause_task", "resume_task", "cancel_task"}

McpInit ==
  /\ mcpConfig = NoConfig
  /\ mcpTools = {}
  /\ mcpTasks = {}
  /\ mcpCalls = 0
  /\ mcpVerdicts = {}

\* createMcpServer(config): the command-writing tools the server registers;
\* register_group only inside if (config.isMain).
createMcpServer(config) ==
  TaskTools \cup (IF config.isMain THEN {"register_group"} ELSE {})

toolCommandAsMain(config, tool, target) ==
  [type |-> tool, source_group |-> MAIN_GROUP_FOLDER, target |-> target]

\* The command a tool handler hands to writeIpcCommand.
toolCommand(config, tool, target) ==
  [type |-> tool, source_group |-> config.groupFolder, target |-> target]

\* The payload field the host acts on, per tool.
ToolTargets(tool) ==
  IF tool \in TaskOps THEN TaskIds
  ELSE IF tool = "register_group" THEN PayloadFolders
  ELSE {"none"}

\* The host starts a container for a group: ipc/{groupFolder} is mounted at
\* /ipc, the ContainerInput names the same folder, and main creates the
\* server from it.
StartMcpContainer(groupFolder, isMain) ==
  /\ mcpConfig = NoConfig
  /\ mcpCalls < MaxToolCalls
  /\ mcpConfig' = [groupFolder |-> groupFolder, isMain |-> isMain]
  /\ mcpTools' = createMcpServer([groupFolder |-> groupFolder,
                                  isMain |-> isMain])
  /\ UNCHANGED <<mcpTasks, mcpCalls, mcpVerdicts, notMcpVars>>

\* The agent calls a tool the server registered; its handler writes one
\* command file into /ipc/tasks, i.e. the tasks/ directory of the group the
\* container was started for.
ToolCall(tool, target) ==
  /\ mcpConfig # NoConfig
  /\ mcpCalls < MaxToolCalls
  /\ tool \in mcpTools
  /\ mcpCalls' = mcpCalls + 1
  /\ mcpTasks' = mcpTasks \cup
       {[name |-> mcpCalls + 1, dir |-> mcpConfig.groupFolder,
         cmd |-> toolCommand(mcpConfig, tool, target),
         byMain |-> mcpConfig.isMain]}
  /\ UNCHANGED <<mcpConfig, mcpTools, mcpVerdicts, notMcpVars>>

\* The container ends.
McpContainerEnds ==
  /\ mcpConfig # NoConfig
  /\ mcpConfig' = NoConfig
  /\ mcpTools' = {}
  /\ UNCHANGED <<mcpTasks, mcpCalls, mcpVerdicts, notMcpVars>>

\* The host's watcher takes a command file and applies the source-identity
\* check to it.
HostChecksSource(f) ==
  /\ f \in mcpTasks
  /\ mcpTasks' = mcpTasks \ {f}
  /\ mcpVerdicts' = mcpVerdicts \cup
       {[name |-> f.name, type |-> f.cmd.type, byMain |-> f.byMain,
         passed |-> SourceIdentityOk(f)]}
  /\ UNCHANGED <<mcpConfig, mcpTools, mcpCalls, notMcpVars>>

McpNext ==
  \/ /\ mcpConfig = NoConfig
     /\ \E groupFolder \in Groups : \E isMain \in BOOLEAN :
          StartMcpContainer(groupFolder, isMain)
  \/ /\ mcpConfig # NoConfig
     /\ \E tool \in TaskTools \cup {"register_group"} :
          \E target \in ToolTargets(tool) : ToolCall(tool, target)
  \/ McpContainerEnds
  \/ \E f \in mcpTasks : HostChecksSource(f)

vars ==
  <<queueVars, busVars, cursorVars, triggerVars, orchVars, parserVars,
    runnerVars, streamVars, writerVars, roundTripVars, exitVars,
    sessionVars, envVars, recoveryVars, lifeVars, drainVars, mcpVars>>

Init ==
  /\ QueueInit /\ BusInit /\ CursorInit /\ TriggerInit /\ OrchInit
  /\ ParserInit /\ RunnerInit /\ StreamInit /\ WriterInit /\ RoundTripInit
  /\ ExitInit /\ SessionInit /\ EnvInit /\ RecoveryInit /\ LifeInit
  /\ DrainInit /\ McpInit

\* The queue under submit, complete, fail, timeout and shutdown.
QueueSpec == Init /\ [][QueueNext]_vars

\* The queue in steady state, every running execution eventually ending.
QueueLiveSpec ==
  /\ Init
  /\ [][QueueLiveNext]_vars
  /\ \A g \in Groups : WF_vars(Finish(g))

\* The Command Bus: containers write command files, the host scans.
BusSpec == Init /\ [][BusNext]_vars

\* The message loop of the orchestrator: store, poll, execute, end.
CursorSpec == Init /\ [][CursorNext]_vars

\* Trigger decisions over registered groups and batches.
TriggerSpec == Init /\ [][TriggerNext]_vars

\* A container writing noise and blocks to stdout, the host reading it in
\* chunks.
ParserSpec == Init /\ [][ParserNext]_vars

\* One agent runner and the host writing into its input directory. The
\* timers of the runner keep firing, and a query whose prompt stream has
\* ended returns.
RunnerSpec ==
  /\ Init
  /\ [][RunnerNext]_vars
  /\ WF_vars(pollIpc)
  /\ WF_vars(waitForNextMessage)
  /\ WF_vars(QueryReturns)

\* The orchestrator from startup to exit; its shutdown procedure, once
\* begun, keeps running (timers of the control thread).
OrchSpec ==
  /\ Init
  /\ [][OrchNext]_vars
  /\ WF_vars(GraceTick)
  /\ WF_vars(FinishShutdown)

\* A MessageStream under pushes and end(), with a consumer that keeps
\* asking for the next message.
StreamSpec ==
  /\ Init
  /\ [][StreamNext]_vars
  /\ WF_vars(ConsumerNext)
  /\ WF_vars(Resume)

\* Containers writing command files step by step while the host scans.
WriterSpec == Init /\ [][WriterNext]_vars

\* Every IpcCommand of the bounded set, written and read back.
RoundTripSpec == Init /\ [][RoundTripNext]_vars

\* One execution from launch to its classified exit.
ExitSpec == Init /\ [][ExitNext]_vars

\* The orchestrator's session bookkeeping.
SessionSpec == Init /\ [][SessionNext]_vars

\* The agent-runner's environment handling.
EnvSpec == Init /\ [][EnvNext]_vars

\* The orchestrator's startup.
RecoverySpec == Init /\ [][RecoveryNext]_vars

\* Successive containers of one group.
LifeSpec == Init /\ [][LifeNext]_vars

\* The same with every step of a running container eventually taken; when
\* a container is started, killed or written to is left to the host.
LifeLiveSpec ==
  /\ Init /\ [][LifeNext]_vars
  /\ WF_vars(PollTimer)
  /\ WF_vars(WaitPoll)
  /\ WF_vars(\E hasResponse \in BOOLEAN : QueryCompletes(hasResponse))

\* drainIpcInput over every kind of entry.
DrainSpec == Init /\ [][DrainNext]_vars

\* Containers of the groups calling MCP tools while the host reads the
\* command files.
McpSpec == Init /\ [][McpNext]_vars

Spec == QueueSpec

\* ------------------------------------------------------------------------
\* Execution Queue: properties
\* ------------------------------------------------------------------------

QueueTypeOK ==
  /\ pending \in [Groups -> Seq(Tickets)]
  /\ processing \in [Groups -> BOOLEAN]
  /\ activeCount \in 0..(NumGroups + 1)
  /\ rrNext \in 1..NumGroups

\* C1: in every reachable state, under any interleaving of submit, admit,
\* complete, fail, timeout and shutdown, each group folder has at most one
\* live (active) ExecutionHandle.
C1_OneActiveHandlePerGroup ==
  \A g \in Groups : HandleCount(g) <= 1

\* A group is running one item, has another one queued and a global slot is
\* free: only the per-group rule keeps the second item from starting.
C1_Witness ==
  \E g \in Groups :
    /\ HasHandle(g)
    /\ Len(pending[g]) >= 2
    /\ activeCount < MaxConcurrent

\* C2: in every reachable state the number of simultaneously running
\* executions, summed over all groups, is at most the limit K (MaxConcurrent),
\* whatever the number of groups and pending items.
C2_GlobalLimit ==
  /\ BagCardinality(handles) <= MaxConcurrent
  /\ activeCount <= MaxConcurrent

\* All K slots are taken while another group has an item waiting.
C2_Witness ==
  /\ BagCardinality(handles) = MaxConcurrent
  /\ \E g \in Groups : pending[g] # <<>> /\ ~HasHandle(g)

QueuedBehind(g, t) ==
  /\ processing[g]
  /\ \E i \in 2..Len(pending[g]) : pending[g][i] = t

\* Items are pending but nothing runs.
Stalled ==
  /\ \E g \in Groups : pending[g] # <<>>
  /\ handles = EmptyBag

\* C4: under arbitrary individual failures (crash, timeout) the queue makes
\* progress: every item queued behind a running item of its group is
\* eventually started, and the queue never holds pending items with nothing
\* running.
C4_FailureDoesNotBlock ==
  /\ [](~Stalled)
  /\ \A g \in Groups : \A t \in Tickets :
       QueuedBehind(g, t) ~> (started[g] = t)

\* The only run that has ended so far is the first item of group g, it
\* failed, and the item that was queued behind it is running.
C4_Witness ==
  \E g \in Groups :
    /\ lastOutcome \in {"crash", "timeout"}
    /\ \A o \in Groups \ {g} : finished[o] = TicketMod - 1 /\ nextTicket[o] = 0
    /\ HasHandle(g)
    /\ finished[g] = 0
    /\ started[g] = 1

\* C5: with more than K executions pending across the groups and every
\* running execution eventually completing, no group's pending head waits
\* forever: every waiting head is eventually started.
C5_NoStarvation ==
  \A g \in Groups :
    (pending[g] # <<>> /\ ~processing[g])
      ~> (processing[g] /\ HasHandle(g) /\ started[g] = Head(pending[g]))

\* All K slots are taken, a third group waits and a running group has more
\* work queued behind its running item.
C5_Witness ==
  /\ BagCardinality(handles) = MaxConcurrent
  /\ \E g \in Groups : pending[g] # <<>> /\ ~processing[g]
  /\ \E g \in Groups : processing[g] /\ Len(pending[g]) >= 2

\* ------------------------------------------------------------------------
\* Command Bus properties
\* ------------------------------------------------------------------------

BusTypeOK ==
  /\ \A f \in tasksFiles :
       f.name \in 1..(nextFile - 1) /\ f.dir \in Groups /\ f.cmd \in Commands
  /\ \A e \in errorsDir : e.name \in 1..(nextFile - 1)
  /\ \A t \in DOMAIN scheduledTasks :
       scheduledTasks[t].status \in {"active", "paused", "completed"}
  /\ Groups \subseteq DOMAIN registeredGroups
  /\ reloads \in 0..MaxFiles

\* File f was acted on by the scan whose log is `log`.
ActedOn(log, f) == \E i \in 1..Len(log) : log[i] = f.name

\* File f lies in the errors directory `errors`.
QuarantinedIn(errors, f) == \E e \in errors : e.name = f.name

\* A step of the watcher (no file is written in it).
ScanStep == nextFile' = nextFile

WellFormed(f) == f.cmd.type \in CommandTypes

\* C6: a command file whose declared source_group differs from the group
\* directory it was found in is quarantined by the scan that finds it and is
\* not acted on, whatever its command type and also when the declared
\* source_group is the main group; a scan that finds only such files changes
\* neither the scheduled tasks nor the registered groups nor reloads them.
C6_SourceMismatchQuarantined ==
  [][ScanStep =>
       /\ \A f \in tasksFiles :
            (WellFormed(f) /\ f.cmd.source_group # f.dir) =>
              /\ QuarantinedIn(errorsDir', f)
              /\ ~ActedOn(lastActed', f)
       /\ (\A f \in tasksFiles : f.cmd.source_group # f.dir) =>
            UNCHANGED <<scheduledTasks, registeredGroups, reloads>>]_vars

C6_Witness ==
  /\ \E e \in errorsDir :
       /\ e.error = "Unauthorized: source_group mismatch"
       /\ e.source_group = MAIN_GROUP_FOLDER
  /\ Cardinality(errorsDir) = 2
  /\ tasksFiles = {}
  /\ lastActed = <<>>
  /\ reloads = 0
  /\ DOMAIN registeredGroups = Groups

\* A command the main group wrote into its own directory.
FromMain(f) ==
  f.cmd.source_group = MAIN_GROUP_FOLDER /\ f.dir = MAIN_GROUP_FOLDER

\* C7: a register_group or refresh_groups command whose source_group is not
\* the main group is quarantined and not acted on; the registered groups
\* change, and are reloaded, only by such commands of the main group.
C7_AdminCommandsMainOnly ==
  [][ScanStep =>
       /\ \A f \in tasksFiles :
            (f.cmd.type \in MainGroupOnly
               /\ f.cmd.source_group # MAIN_GROUP_FOLDER) =>
              /\ QuarantinedIn(errorsDir', f)
              /\ ~ActedOn(lastActed', f)
       /\ reloads' = reloads + Cardinality({f \in tasksFiles :
                        FromMain(f) /\ f.cmd.type = "refresh_groups"})
       /\ DOMAIN registeredGroups' = DOMAIN registeredGroups \cup
            {f.cmd.target : f \in {x \in tasksFiles :
                        FromMain(x) /\ x.cmd.type = "register_group"}}
       /\ \A g \in DOMAIN registeredGroups :
            registeredGroups'[g] # registeredGroups[g] =>
              \E f \in tasksFiles : /\ FromMain(f)
                                    /\ f.cmd.type = "register_group"
                                    /\ f.cmd.target = g]_vars

C7_Witness ==
  /\ \E e \in errorsDir : /\ e.error = "Unauthorized: non-main group"
                          /\ e.source_group = "alpha"
  /\ \E e \in errorsDir : /\ e.error = "Unauthorized: non-main group"
                          /\ e.source_group = "beta"
  /\ tasksFiles = {}
  /\ reloads = 0
  /\ registeredGroups = [g \in Groups |-> g]

\* File f is a task operation its source may perform on its target.
AuthorizedTaskOp(f) ==
  /\ f.cmd.type \in TaskOps
  /\ f.cmd.source_group = f.dir
  /\ \/ f.cmd.source_group = MAIN_GROUP_FOLDER
     \/ scheduledTasks[f.cmd.target].group_folder = f.cmd.source_group

\* C8: a pause_task, resume_task or cancel_task command of a non-main group
\* is acted on when the task's group_folder is the source group and is
\* quarantined otherwise; a command of the main group is acted on whatever
\* task it names; a task changes only by a command so authorized.
C8_TaskOwnership ==
  [][ScanStep =>
       /\ \A f \in tasksFiles :
            (f.cmd.type \in TaskOps /\ f.cmd.source_group = f.dir) =>
              IF AuthorizedTaskOp(f)
                THEN ActedOn(lastActed', f) /\ ~QuarantinedIn(errorsDir', f)
                ELSE QuarantinedIn(errorsDir', f) /\ ~ActedOn(lastActed', f)
       /\ \A t \in DOMAIN scheduledTasks :
            scheduledTasks'[t] # scheduledTasks[t] =>
              \E f \in tasksFiles : /\ AuthorizedTaskOp(f)
                                    /\ f.cmd.target = t
                                    /\ ActedOn(lastActed', f)]_vars

C8_Witness ==
  /\ \E e \in errorsDir : /\ e.error = "Unauthorized: not the task owner"
                          /\ e.source_group = "alpha"
  /\ Len(lastActed) = 1
  /\ scheduledTasks["t1"].status = "active"
  /\ scheduledTasks["t2"].status = "paused"
  /\ tasksFiles = {}

\* C9: a scan handles every file it finds in tasks/ exactly once, acting on
\* it or quarantining it, and the file is then no longer in tasks/; it acts
\* only on files found in tasks/, never on a file in errors/, and no file in
\* tasks/ is one that was quarantined before; what is in errors/ stays there.
C9_AtMostOnce ==
  [][ScanStep =>
       /\ \A f \in tasksFiles :
            /\ f \notin tasksFiles'
            /\ ~QuarantinedIn(errorsDir, f)
            /\ ActedOn(lastActed', f) # QuarantinedIn(errorsDir', f)
       /\ \A i, j \in 1..Len(lastActed') :
            lastActed'[i] = lastActed'[j] => i = j
       /\ \A i \in 1..Len(lastActed') :
            \E f \in tasksFiles : f.name = lastActed'[i]
       /\ errorsDir \subseteq errorsDir'
       /\ \A e \in errorsDir' \ errorsDir :
            \E f \in tasksFiles : f.name = e.name]_vars

C9_Witness ==
  /\ tasksFiles = {}
  /\ \E e \in errorsDir : lastActed = <<e.name + 1>>
  /\ Cardinality(errorsDir) = 1
  /\ reloads = 1

\* The files of a scan that are rejected, as the scan begins.
Rejected == {f \in tasksFiles : Rejection(BusState, f) # "ok"}

\* What a scan of the files `files` alone makes of the present state.
ScanOf(files) ==
  ProcessAll([BusState EXCEPT !.lastActed = <<>>], Listing(files, 1), 1)

\* C24: in every scan, each file that does not parse or fails authorization
\* leaves tasks/ for errors/ with a metadata record of the reason, the
\* source group it claims and the time, and is not acted on; the files
\* acted on are all the others, directory by directory in filename order,
\* and tasks, groups and reloads end as if the rejected files had not been
\* there.
C24_RejectedFilesIsolated ==
  [][ScanStep =>
       /\ \A f \in Rejected :
            /\ f \notin tasksFiles'
            /\ ~ActedOn(lastActed', f)
            /\ \E e \in errorsDir' \ errorsDir :
                 /\ e.name = f.name
                 /\ e.error = Rejection(BusState, f)
                 /\ e.source_group = f.cmd.source_group
                 /\ e.processed_at > f.name
       /\ \E others \in {Listing(tasksFiles \ Rejected, 1)} :
            lastActed' = [i \in 1..Len(others) |-> others[i].name]
       /\ \E alone \in {ScanOf(tasksFiles \ Rejected)} :
            /\ scheduledTasks' = alone.scheduledTasks
            /\ registeredGroups' = alone.registeredGroups
            /\ reloads' = alone.reloads]_vars

C24_Witness ==
  /\ \E e \in errorsDir :
       /\ e.name = 1
       /\ e.error = "Unauthorized: not the task owner"
       /\ e.source_group = "alpha"
  /\ lastActed = <<2>>
  /\ "2" \in DOMAIN scheduledTasks
  /\ scheduledTasks["2"].group_folder = "alpha"
  /\ tasksFiles = {}

\* ------------------------------------------------------------------------
\* Cursor properties
\* ------------------------------------------------------------------------

CursorTypeOK ==
  /\ \A m \in messages : /\ m.chat_jid \in Groups
                         /\ m.timestamp \in Timestamps
                         /\ m.kind \in MessageKinds
  /\ \A g \in Groups : /\ lastProcessed[g] \in 0..MaxTime
                       /\ exec[g].delivered \in 0..MaxBlocks
                       /\ exec[g].outcome \in ExecOutcomes \cup {"none"}

\* The messages of a batch.
BatchSet(batch) == {batch[i] : i \in 1..Len(batch)}

\* The execution of g ends in this step, failed, with no block delivered.
FailsWithoutOutput(g) ==
  /\ exec[g].running
  /\ ~exec'[g].running
  /\ exec'[g].outcome \in Failures
  /\ exec[g].delivered = 0

\* C10: when an execution of group g ends in timeout, crash or disconnect
\* and none of its output blocks was delivered, the Cursor of g afterwards
\* is the value it had before the optimistic advance, and the new-message
\* query for g returns the triggering messages again.
C10_RollbackWithoutOutput ==
  [][\A g \in Groups :
       FailsWithoutOutput(g) =>
         /\ lastProcessed'[g] = exec[g].previousCursor
         /\ lastProcessed[g] = LatestTimestamp(exec[g].batch)
         /\ exec[g].previousCursor < lastProcessed[g]
         /\ BatchSet(exec[g].batch) \subseteq
              BatchSet(getNewMessages(messages', g, lastProcessed'[g]))]_vars

C10_Witness ==
  \E g \in Groups :
    /\ ~exec[g].running
    /\ exec[g].outcome \in Failures
    /\ exec[g].delivered = 0
    /\ exec[g].previousCursor > 0
    /\ lastProcessed[g] = exec[g].previousCursor
    /\ getNewMessages(messages, g, lastProcessed[g]) = exec[g].batch

\* The execution of g ends in this step, failed, after a delivered block.
FailsAfterOutput(g) ==
  /\ exec[g].running
  /\ ~exec'[g].running
  /\ exec'[g].outcome \in Failures
  /\ exec[g].delivered >= 1

\* C11: when an execution of group g fails after at least one of its output
\* blocks was delivered, the Cursor of g is not rolled back: afterwards it
\* is at least its pre-execution value and at most the timestamp of the
\* latest triggering message, and the new-message query for g returns none
\* of the triggering messages.
C11_NoRollbackAfterOutput ==
  [][\A g \in Groups :
       FailsAfterOutput(g) =>
         /\ lastProcessed'[g] = lastProcessed[g]
         /\ lastProcessed'[g] >= exec[g].previousCursor
         /\ lastProcessed'[g] <= LatestTimestamp(exec[g].batch)
         /\ BatchSet(exec[g].batch) \cap
              BatchSet(getNewMessages(messages', g, lastProcessed'[g])) = {}]_vars

C11_Witness ==
  \E g \in Groups :
    /\ ~exec[g].running
    /\ exec[g].outcome \in Failures
    /\ exec[g].delivered >= 1
    /\ exec[g].previousCursor > 0
    /\ lastProcessed[g] = LatestTimestamp(exec[g].batch)
    /\ lastProcessed[g] > exec[g].previousCursor

\* Group g is a non-main group that needs a trigger, idle, with new messages
\* none of which matches the trigger pattern.
UntriggeredBacklog(g) ==
  /\ g # MAIN_GROUP_FOLDER
  /\ RequiresTrigger[g]
  /\ ~exec[g].running
  /\ getNewMessages(messages, g, lastProcessed[g]) # <<>>
  /\ \A m \in BatchSet(getNewMessages(messages, g, lastProcessed[g])) :
       ~MatchesTrigger(m)

C14_FollowUpsRouted ==
  [][\A g \in Groups :
       /\ exec[g].running =>
            /\ exec'[g].batch = exec[g].batch
            /\ exec'[g].previousCursor = exec[g].previousCursor
            /\ lastProcessed'[g] \in {lastProcessed[g], exec[g].previousCursor}
       /\ Len(followUps'[g]) > Len(followUps[g]) =>
            /\ exec[g].running
            /\ followUps'[g] =
                 followUps[g] \o getNewMessages(messages, g, lastProcessed[g])]_vars

C14_Witness ==
  \E g \in Groups :
    /\ exec[g].running
    /\ Len(exec[g].batch) = 1
    /\ Len(followUps[g]) = 1
    /\ followUps[g][1].timestamp > lastProcessed[g]
    /\ followUps[g][1] \in messages

\* ------------------------------------------------------------------------
\* Trigger properties
\* ------------------------------------------------------------------------

\* C13: the trigger decision for a batch of new messages is true for the
\* main group whatever the messages; for another group it is true when
\* requiresTrigger is false, and when requiresTrigger is true or absent it
\* is true exactly when a message of the batch matches the trigger pattern.
C13_TriggerDecision ==
  trigger.folder # "none" =>
    trigger.decision =
      CASE trigger.folder = MAIN_GROUP_FOLDER -> TRUE
        [] trigger.folder # MAIN_GROUP_FOLDER /\ trigger.given = "false" -> TRUE
        [] OTHER -> \E i \in 1..Len(trigger.batch) :
                      trigger.batch[i].kind = "mention"

C13_Witness ==
  /\ trigger.folder = "alpha"
  /\ trigger.given = "absent"
  /\ Len(trigger.batch) = 2
  /\ trigger.batch[1].kind = "plain"
  /\ trigger.batch[2].kind = "plain"
  /\ ~trigger.decision

\* ------------------------------------------------------------------------
\* Orchestrator properties
\* ------------------------------------------------------------------------

\* The transitions of the state machine, other than those on a signal.
Transitions ==
  {<<"INITIALIZING", "RECOVERING">>, <<"RECOVERING", "POLLING">>,
   <<"POLLING", "PROCESSING">>, <<"PROCESSING", "POLLING">>,
   <<"PROCESSING", "EXECUTING">>, <<"EXECUTING", "POLLING">>,
   <<"SHUTTING_DOWN", "STOPPED">>}

\* C15: the orchestrator state changes only along INITIALIZING->RECOVERING,
\* RECOVERING->POLLING, POLLING->PROCESSING, PROCESSING->POLLING,
\* PROCESSING->EXECUTING, EXECUTING->POLLING, any state but STOPPED
\* ->SHUTTING_DOWN when a termination signal arrives, and
\* SHUTTING_DOWN->STOPPED; STOPPED is never left and SHUTTING_DOWN never
\* goes back to POLLING, PROCESSING or EXECUTING.
C15_StateMachine ==
  [][\A g \in Groups :
       orchState'[g] # orchState[g] =>
         \/ <<orchState[g], orchState'[g]>> \in Transitions
         \/ /\ orchState'[g] = "SHUTTING_DOWN"
            /\ orchState[g] # "STOPPED"
            /\ signals' = signals + 1]_vars

C15_Witness ==
  \E g \in liveAtSignal :
    /\ orchState[g] = "SHUTTING_DOWN"
    /\ handle[g] = "none"
    /\ \E o \in liveAtSignal : handle[o] = "live"

\* C16: at a termination signal every live handle gets the close marker
\* written into its input directory; every execution still running when the
\* wait ends is force-killed; and the orchestrator eventually is STOPPED
\* with no live handle, also when a container never reacts to the marker.
C16_Shutdown ==
  /\ [][/\ signals' # signals =>
             \A g \in Live(handle) : closeMarker'[g]
        /\ (\E g \in Groups : orchState'[g] = "STOPPED"
                                /\ orchState[g] # "STOPPED") =>
             /\ killed' = Live(handle)
             /\ Live(handle') = {}]_vars
  /\ (signals >= 1) ~>
       (/\ \A g \in Groups : orchState[g] = "STOPPED"
        /\ Live(handle) = {})

C16_Witness ==
  /\ \A g \in Groups : orchState[g] = "STOPPED"
  /\ signals = 1
  /\ grace = 0
  /\ killed # {}
  /\ killed # liveAtSignal
  /\ \A g \in liveAtSignal : closeMarker[g]

\* ------------------------------------------------------------------------
\* Output Parser properties
\* ------------------------------------------------------------------------

\* C17: for a stream made of noise (text without a START marker) and of
\* blocks (START marker, text without an END marker, END marker),
\* parseAllOutputs returns the trimmed texts of the complete blocks, one
\* entry per block, in the order written; noise and a block begun but not
\* ended give no entry; a stream without a complete block gives <<>>.
C17_ParseAllOutputs == parseAllOutputs(raw) = expected

C17_Witness ==
  /\ expected = <<<<"S">>, <<>>>>
  /\ mode = "noise"
  /\ raw[3] = " "

\* C18: whatever chunks the stream is read in, the blocks the streaming
\* parser has emitted after a chunk are those parseAllOutputs finds in all
\* that was read so far, in the same order: a block is emitted with the
\* chunk that holds the last character of its END marker.
C18_StreamingParser ==
  blocks = parseAllOutputs(SubSeq(raw, 1, consumed))

C18_Witness ==
  /\ Len(blocks) = 1
  /\ mode = "text"
  /\ consumed < Len(raw)
  /\ Len(buffer) = 1
  /\ raw[consumed] = "-"
  /\ \E i \in 2..(consumed - 1) :
       /\ SubSeq(raw, i - 1, i) = OUTPUT_END_MARKER
       /\ Len(buffer) = consumed - i


\* ---------------------------------------------------------------------
\* Agent runner properties
\* ---------------------------------------------------------------------

RunnerTypeOK ==
  /\ inputFiles \subseteq 1..MaxFollowUps
  /\ written \in 0..MaxFollowUps
  /\ pc \in {"query", "waiting", "closed", "failed"}
  /\ fed \subseteq 1..written
  /\ queries \in 1..(MaxFollowUps + 1)

\* C19: every follow-up file the host has written for a running runner is
\* fed to the agent as a user turn or is still in input/ waiting for a
\* poll of a runner that has not left its loop through _close: no file
\* leaves the directory unfed, and none is left behind at the close.
C19_EveryFollowUpFed ==
  pc # "failed" =>
    \A f \in 1..written :
      \/ f \in fed
      \/ f \in inputFiles /\ pc # "closed"

C21_MessageStream ==
  /\ [](msIter = "completed" =>
          /\ msDone
          /\ Len(msYielded) >= msAtEnd
          /\ SubSeq(msYielded, 1, msAtEnd) = SubSeq(msPushed, 1, msAtEnd))
  /\ [](~msDone /\ msQueue = <<>> => msIter # "completed")
  /\ msDone ~> msIter = "completed"

C21_Witness ==
  /\ msIter = "completed"
  /\ msAtEnd >= 2
  /\ Len(msYielded) = msAtEnd

\* ---------------------------------------------------------------------
\* writeIpcCommand properties
\* ---------------------------------------------------------------------

\* C22: whenever a scan runs, a name ending in .json holds the complete
\* document, so no scan ever reads a partially written command: the
\* document is written under the .tmp name and renamed when complete.
C22_NoPartialRead ==
  /\ \A w \in 1..MaxWrites : wFiles[w].suffix = "json" => wFiles[w].bytes = DocLen
  /\ \A r \in wRead : r.bytes = DocLen

C22_Witness ==
  /\ \E r \in wRead : r.file = 1
  /\ wFiles[2].suffix = "tmp" /\ wFiles[2].bytes = 1
  /\ wFiles[3].suffix = "json"

\* ---------------------------------------------------------------------
\* Round trip of an IpcCommand
\* ---------------------------------------------------------------------

LastOfAll(str) ==
  LET all == parseAllOutputs(str)
  IN  IF all = <<>> THEN <<>> ELSE all[Len(all)]

\* C29: for the stream written so far, and for what is left of it without
\* its first character and without its first two (strings that begin
\* inside a marker), parseContainerOutput returns the last entry of
\* parseAllOutputs of the same string, and the empty string when the
\* string holds no complete block.
C29_ParseContainerOutput ==
  \A i \in 1..3 :
    parseContainerOutput(SubSeq(raw, i, Len(raw)))
      = LastOfAll(SubSeq(raw, i, Len(raw)))

C29_Witness ==
  /\ Len(expected) = 2
  /\ expected[1] # expected[2]
  /\ expected[1] # <<>>
  /\ parseContainerOutput(raw) = expected[2]
  /\ parseContainerOutput(SubSeq(raw, 3, Len(raw))) = expected[2]

\* The execution of g starts in this step.
Starts(g) == ~exec[g].running /\ exec'[g].running

\* C30: the new-message query for a chat and a Cursor returns the stored
\* messages of the chat that are later than the Cursor and not bot
\* messages, each once, in ascending timestamp order; so the batch of a
\* starting execution is not empty, holds no bot message and no message at
\* or before the Cursor, and the query at the advanced Cursor returns none
\* of the batch again.
C30_NewMessageQuery ==
  /\ [](\A g \in Groups : \A since \in 0..MaxTime :
          \E result \in {getNewMessages(messages, g, since)} :
            /\ BatchSet(result) = {m \in messages : /\ m.chat_jid = g
                                                    /\ m.timestamp > since
                                                    /\ m.kind # "bot"}
            /\ Len(result) = Cardinality(BatchSet(result))
            /\ \A i, j \in 1..Len(result) :
                 i < j => result[i].timestamp <= result[j].timestamp)
  /\ [][\A g \in Groups :
          Starts(g) =>
            /\ exec'[g].batch # <<>>
            /\ \A m \in BatchSet(exec'[g].batch) :
                 /\ m.kind # "bot"
                 /\ m.chat_jid = g
                 /\ m.timestamp > lastProcessed[g]
            /\ BatchSet(exec'[g].batch)
                 \cap BatchSet(getNewMessages(messages', g, lastProcessed'[g]))
                 = {}]_vars

C30_Witness ==
  \E g \in Groups :
    /\ ~exec[g].running
    /\ exec[g].outcome = "ok"
    /\ lastProcessed[g] > 0
    /\ \E m \in messages : /\ m.chat_jid = g
                           /\ m.kind = "bot"
                           /\ m.timestamp > lastProcessed[g]
    /\ getNewMessages(messages, g, lastProcessed[g]) = <<>>

\* ---------------------------------------------------------------------
\* Exit classification
\* ---------------------------------------------------------------------

C26_SessionIdFreshPerHandle ==
  /\ \A i, j \in 1..Len(containerInputs) :
       i # j => containerInputs[i].sessionId # containerInputs[j].sessionId
  /\ \A t \in 1..Len(turnLog) :
       turnLog[t].sessionId = containerInputs[turnLog[t].execution].sessionId

\* ------------------------------------------------------------------------
\* Secrets and the process environment
\* ------------------------------------------------------------------------

\* The secrets main ends up with: the inline ones, or those of the file
\* when the inline ones are missing or empty and the file exists.
SecretsUsed ==
  IF (~stdinSecrets.given \/ KeyCount(stdinSecrets.entries) = 0)
     /\ secretsFile.exists
  THEN secretsFile.entries
  ELSE stdinSecrets.entries

\* C27: a run of main leaves process.env as it was; /secrets.json is read
\* only when the inline secrets are missing or empty; the secrets are in
\* the env option handed to query() and nowhere else.
C27_ProcessEnvUnchanged ==
  envStage \in {"done", "failed"} =>
    /\ processEnv = ambientEnv
    /\ fileRead => (~stdinSecrets.given \/ KeyCount(stdinSecrets.entries) = 0)
    /\ envStage = "done" =>
         /\ sdkEnv.passed
         /\ \A k \in EnvKeys :
              sdkEnv.entries[k] = IF SecretsUsed[k] \notin {"absent", ""}
                                  THEN SecretsUsed[k] ELSE ambientEnv[k]

\* The same statement for runs of the first definition of main only.
FirstMainKeepsProcessEnv == mainRan = "first" => C27_ProcessEnvUnchanged

\* ------------------------------------------------------------------------
\* Registered groups
\* ------------------------------------------------------------------------

\* The folders a scan registers: the targets of the register_group commands
\* the main group wrote into its own directory.
RegisteredBy(files) ==
  {f.cmd.target : f \in {x \in files : /\ x.cmd.type = "register_group"
                                       /\ x.cmd.source_group = MAIN_GROUP_FOLDER
                                       /\ x.dir = MAIN_GROUP_FOLDER}}

FoldersOf(rows) == {r.folder : r \in rows}

\* C28: a folder registered by an authorized register_group command of a
\* scan is among the registered groups from then on: no step removes a
\* group or changes its added_at, no two groups have the same folder, and
\* registering a known folder replaces its fields without adding an entry.
C28_RegisteredGroupsKept ==
  /\ [](\A r1, r2 \in getRegisteredGroups(groupRows) :
          r1.folder = r2.folder => r1 = r2)
  /\ [][\A r \in getRegisteredGroups(groupRows) :
          \E r2 \in getRegisteredGroups(groupRows') :
            r2.folder = r.folder /\ r2.added_at = r.added_at]_vars
  /\ [][ScanStep =>
          /\ FoldersOf(groupRows') =
               FoldersOf(groupRows) \cup RegisteredBy(tasksFiles)
          /\ Cardinality(groupRows') =
               Cardinality(groupRows)
                 + Cardinality(RegisteredBy(tasksFiles) \ FoldersOf(groupRows))
          /\ \A r \in getRegisteredGroups(groupRows') :
               r.folder \in RegisteredBy(tasksFiles) =>
                 r.name = "registered by main"]_vars

C28_Witness ==
  /\ Cardinality(groupRows) = NumGroups + 1
  /\ \E r \in groupRows : /\ r.folder = "alpha"
                          /\ r.name = "registered by main"
                          /\ r.added_at = 0
  /\ \E r \in groupRows : r.folder = "ops" /\ r.added_at > 0
  /\ tasksFiles = {}

\* ------------------------------------------------------------------------
\* Crash recovery
\* ------------------------------------------------------------------------

\* The user messages of group g stored after its Cursor.
Backlog(g) ==
  {m \in recStore : /\ m.chat_jid = g
                    /\ m.timestamp > recCursor[g]
                    /\ m.kind # "bot"}

\* C31: when the orchestrator enters POLLING for the first time, every
\* registered group with stored messages newer than its Cursor has had
\* exactly those messages submitted, a group without such messages has had
\* nothing submitted, and every submission was made in RECOVERING.
C31_BacklogSubmittedBeforePolling ==
  /\ [](recState = "POLLING" =>
          \A g \in RecoveryGroups :
            /\ Backlog(g) # {} <=> recSubmitted[g] # <<>>
            /\ {recSubmitted[g][i] : i \in 1..Len(recSubmitted[g])} = Backlog(g))
  /\ [][recSubmitted' # recSubmitted =>
          recState = "RECOVERING" /\ recState' = "RECOVERING"]_vars

C31_Witness ==
  /\ recState = "POLLING"
  /\ Len(recSubmitted["main"]) = 2
  /\ recSubmitted["alpha"] = <<>>
  /\ \E m \in recStore : m.chat_jid = "alpha" /\ m.timestamp <= recCursor["alpha"]

\* ------------------------------------------------------------------------
\* Work conservation of the Execution Queue
\* ------------------------------------------------------------------------

\* A slot is free while the head of some group's FIFO waits.
SlotIdleWhileWaiting ==
  /\ activeCount < MaxConcurrent
  /\ \E g \in Groups : pending[g] # <<>> /\ ~processing[g]

C34_NoStaleInput ==
  /\ hPc # "none" =>
       /\ dirClose \in {0, hNo}
       /\ \A f \in dirFiles : f.handle = hNo
  /\ \A c \in consumedLog : c.writtenFor = c.consumedBy

\* C35: a message the host has written into input/ for a live handle is
\* not lost when that handle ends before reading it: it is eventually
\* part of the input of a query().
C35_RoutedMessageDelivered ==
  \A n \in 1..MaxRouted : (routed >= n) ~> (n \in fedFiles)

\* ------------------------------------------------------------------------
\* MessageStream under every interleaving
\* ------------------------------------------------------------------------

\* C36: however push(), end() and the consumer's steps interleave, the
\* messages yielded are a prefix of the messages pushed (each at most
\* once, in push order), an iterator suspended on the empty queue is
\* woken by the next push() or end(), and a woken iterator goes on.
C36_NoLostWakeUp ==
  /\ [](/\ Len(msYielded) <= Len(msPushed)
        /\ msYielded = SubSeq(msPushed, 1, Len(msYielded)))
  /\ [](msIter = "parked" => msWaiting /\ msQueue = <<>> /\ ~msDone)
  /\ [][(msIter = "parked" /\ (msPushed' # msPushed \/ msDone' # msDone))
          => msIter' = "woken"]_vars
  /\ (msIter = "woken") ~> (msIter # "woken")

C36_Witness ==
  /\ msIter = "woken"
  /\ Len(msQueue) = 2
  /\ Len(msYielded) = 1
  /\ ~msDone

\* ------------------------------------------------------------------------
\* drainIpcInput
\* ------------------------------------------------------------------------

\* The names returned by the drains so far, with the drain and position.
Returned ==
  {<<d, i>> : d \in 1..Len(drainLog), i \in 1..MaxDirWrites} \cap
  {p \in (1..Len(drainLog)) \X (1..MaxDirWrites) : p[2] <= Len(drainLog[p[1]])}

\* C37: a drain returns the messages of the .json files of input/ in the
\* lexical order of their names and deletes every .json file, also one
\* without text or one that does not parse; no file is returned twice;
\* _close and files not ending in .json are neither returned nor deleted.
C37_DrainIpcInput ==
  /\ [][drainLog' # drainLog =>
          LET result == drainLog'[Len(drainLog')]
          IN  /\ {result[i] : i \in 1..Len(result)} =
                   {e.name : e \in {x \in drainDir : x.kind = "message"}}
              /\ \A i, j \in 1..Len(result) :
                   i < j => LexLess(result[i], result[j])
              /\ drainDir' = {e \in drainDir : e.kind = "tmp"}
              /\ closePresent' = closePresent]_vars
  /\ [](\A p, q \in Returned :
          p # q => drainLog[p[1]][p[2]] # drainLog[q[1]][q[2]])

C37_Witness ==
  /\ Len(drainLog) = 2
  /\ drainLog[1] = <<<<1>>, <<1, 2>>>>
  /\ drainLog[2] = <<>>
  /\ closePresent
  /\ \E e \in drainDir : e.kind = "tmp"
  /\ Cardinality(usedNames) = MaxDirWrites

\* ------------------------------------------------------------------------
\* Scheduled-task runs and failing turns of the agent-runner
\* ------------------------------------------------------------------------

\* C38: a runner started with isScheduledTask makes one query() call and
\* leaves its loop when that call ends: it never arms pollIpc, never waits
\* for a next message, takes neither a follow-up file nor _close from
\* input/, and emits at most one block for its prompt.
C38_ScheduledTaskRunsOnce ==
  /\ [](hNo \in scheduledRuns =>
          /\ hQueries = 1
          /\ ~hPolling
          /\ hPc \in {"query", "none"}
          /\ hBlocks + hErrors <= 1)
  /\ [](\A c \in consumedLog : c.consumedBy \notin scheduledRuns)
  /\ [][(hNo \in scheduledRuns /\ hPc = "query" /\ hPc' # "query")
          => hPc' = "none" /\ hNo' = hNo]_vars

C38_Witness ==
  /\ hNo \in scheduledRuns
  /\ hPc = "none"
  /\ hBlocks = 1
  /\ dirClose = hNo
  /\ \E f \in dirFiles : f.handle = hNo

C39_ToolCommandsCarryOwnGroup ==
  /\ \A f \in mcpTasks :
       /\ f.cmd \in Commands
       /\ SourceIdentityOk(f)
       /\ f.cmd.type = "register_group" => f.byMain
  /\ \A v \in mcpVerdicts :
       /\ v.passed
       /\ v.type = "register_group" => v.byMain
  /\ mcpConfig # NoConfig =>
       /\ ("register_group" \in mcpTools) = mcpConfig.isMain
       /\ TaskTools \subseteq mcpTools

C39_Witness ==
  /\ \E v \in mcpVerdicts :
       v.passed /\ v.type = "register_group" /\ v.byMain
  /\ \E f \in mcpTasks :
       /\ ~f.byMain
       /\ f.dir # MAIN_GROUP_FOLDER
       /\ f.cmd.type \in TaskOps
       /\ f.cmd.source_group = f.dir
  /\ mcpConfig # NoConfig
  /\ ~mcpConfig.isMain

====
